---- MODULE Spec2Model ----
(***************************************************************************)
(* Model of the pure helpers of campfire-mcp-server (helpers.ts):          *)
(* the recursive statement search extractTotal, the snapshot and burn-rate *)
(* composers and the entity shapers.                                       *)
(*                                                                         *)
(* Conventions.                                                            *)
(*  - A JavaScript value is a tagged record (field t): undefined, null,    *)
(*    boolean, number, NaN, string, array, object.  An object keeps its    *)
(*    keys in insertion order (Object.keys order for non-index keys).      *)
(*  - A finite number is the integer count of 1/Unit (thousandths), so     *)
(*    that rounding to 2 decimals is not the identity.  Arithmetic is      *)
(*    exact: IEEE-754 representation error is outside the model.           *)
(*  - A raised TypeError is the outcome Throw.                             *)
(***************************************************************************)
EXTENDS Integers, Sequences, FiniteSets, TLC

VARIABLES pc, call, ret, promises

vars == <<pc, call, ret, promises>>

\* Thousandths per unit of a modelled number.
Unit == 10 * 10 * 10

\* Longest list of sibling elements of a bounded statement list.
MaxLen == 2

\* Most monthly statements of a bounded burn-rate call.
MaxMonths == 4

(***************************************************************************)
(* JavaScript values                                                       *)
(***************************************************************************)
Undef == [t |-> "undefined"]
Null == [t |-> "null"]
NaN == [t |-> "NaN"]
Throw == [t |-> "throw"]
Bool(b) == [t |-> "boolean", b |-> b]
Num(n) == [t |-> "number", n |-> n]
Str(s) == [t |-> "string", s |-> s]
Arr(kids) == [t |-> "array", kids |-> kids]
Obj(keys, vals) == [t |-> "object", keys |-> keys, vals |-> vals]

\* x is null or undefined: a property read on it raises a TypeError.
Nullish(x) == x.t \in {"undefined", "null"}

\* ToBoolean: the operand test of ||, ! and if.
Truthy(x) ==
  CASE x.t \in {"undefined", "null", "NaN"} -> FALSE
    [] x.t = "boolean" -> x.b
    [] x.t = "number" -> x.n # 0
    [] x.t = "string" -> x.s # ""
    [] OTHER -> TRUE

\* a || b
Or(a, b) == IF Truthy(a) THEN a ELSE b

\* x.k for a non-nullish x: the own property, undefined when there is none.
Get(x, k) ==
  IF x.t = "object" /\ \E i \in 1..Len(x.keys) : x.keys[i] = k
  THEN x.vals[CHOOSE i \in 1..Len(x.keys) : x.keys[i] = k]
  ELSE Undef

\* x?.k
OptGet(x, k) == IF Nullish(x) THEN Undef ELSE Get(x, k)

(***************************************************************************)
(* Strings: toLowerCase, includes, and the numeric parse of Number()       *)
(***************************************************************************)
Upper == <<"A","B","C","D","E","F","G","H","I","J","K","L","M",
           "N","O","P","Q","R","S","T","U","V","W","X","Y","Z">>
LowerLetters == <<"a","b","c","d","e","f","g","h","i","j","k","l","m",
                  "n","o","p","q","r","s","t","u","v","w","x","y","z">>
Digits == <<"0","1","2","3","4","5","6","7","8","9">>

LowerChar(c) ==
  IF \E i \in 1..26 : Upper[i] = c
  THEN LowerLetters[CHOOSE i \in 1..26 : Upper[i] = c]
  ELSE c

RECURSIVE toLowerCase(_)
toLowerCase(s) ==
  IF Len(s) = 0 THEN ""
  ELSE LowerChar(SubSeq(s, 1, 1)) \o toLowerCase(SubSeq(s, 2, Len(s)))

\* s.includes(k)
includes(s, k) ==
  \E i \in 1..(Len(s) - Len(k) + 1) : SubSeq(s, i, i + Len(k) - 1) = k

\* keywords.some((k) => name.includes(k))
someIncludes(name, keywords) ==
  \E j \in 1..Len(keywords) : includes(name, keywords[j])

IsDigit(c) == \E i \in 1..10 : Digits[i] = c
DigitVal(c) == (CHOOSE i \in 1..10 : Digits[i] = c) - 1

RECURSIVE DecimalValue(_)
DecimalValue(s) ==
  IF Len(s) = 0 THEN 0
  ELSE 10 * DecimalValue(SubSeq(s, 1, Len(s) - 1)) + DigitVal(SubSeq(s, Len(s), Len(s)))

\* Number(s) of a string: "" is 0, a run of decimal digits is its value, and
\* any other text of the bounded inputs is NaN (signs, fractions, exponents
\* and surrounding blanks do not occur in them).
StringToNumber(s) ==
  IF \A i \in 1..Len(s) : IsDigit(SubSeq(s, i, i))
  THEN Num(DecimalValue(s) * Unit)
  ELSE NaN

\* Number(x)
RECURSIVE ToNumber(_)
ToNumber(x) ==
  CASE x.t = "number" -> x
    [] x.t = "NaN" -> NaN
    [] x.t = "undefined" -> NaN
    [] x.t = "null" -> Num(0)
    [] x.t = "boolean" -> IF x.b THEN Num(Unit) ELSE Num(0)
    [] x.t = "string" -> StringToNumber(x.s)
    [] x.t = "array" ->
         IF Len(x.kids) = 0 THEN Num(0)
         ELSE IF Len(x.kids) = 1
              THEN IF Nullish(x.kids[1]) THEN Num(0)
                   ELSE IF x.kids[1].t = "boolean" THEN NaN
                   ELSE ToNumber(x.kids[1])
              ELSE NaN
    [] OTHER -> NaN

\* a + b on numbers
NumAdd(a, b) == IF a.t = "number" /\ b.t = "number" THEN Num(a.n + b.n) ELSE NaN
\* a - b on numbers
NumSub(a, b) == IF a.t = "number" /\ b.t = "number" THEN Num(a.n - b.n) ELSE NaN
\* Math.abs(a)
MathAbs(a) == IF a.t = "number" THEN Num(IF a.n < 0 THEN -a.n ELSE a.n) ELSE NaN

(***************************************************************************)
(* Keyword lists of the composers                                          *)
(***************************************************************************)
RevenueKeywords == <<"revenue", "income", "sales">>
CogsKeywords == <<"cost of goods", "cost of sales", "cogs", "cost of revenue">>
ExpenseKeywords == <<"expense", "operating expense", "total expense">>
NetIncomeKeywords == <<"net income", "net profit", "net earnings">>
CashKeywords == <<"cash", "cash and cash equivalents", "bank">>
CurrentAssetsKeywords == <<"current assets", "total current assets">>
CurrentLiabilitiesKeywords == <<"current liabilities", "total current liabilities">>

(***************************************************************************)
(* extractTotal                                                            *)
(***************************************************************************)
\* item.name || item.label || item.title || item.account_name || ""
ItemLabel(item) ==
  Or(Get(item, "name"), Or(Get(item, "label"), Or(Get(item, "title"),
     Or(Get(item, "account_name"), Str("")))))

\* A reading of the value fields in which a field that is present wins even
\* when it holds 0 (??-style instead of ||).
ItemValuePresentWins(item) ==
  IF Get(item, "total") # Undef THEN Get(item, "total")
  ELSE IF Get(item, "amount") # Undef THEN Get(item, "amount")
  ELSE IF Get(item, "value") # Undef THEN Get(item, "value")
  ELSE IF Get(item, "balance") # Undef THEN Get(item, "balance")
  ELSE Num(0)

\* item.total || item.amount || item.value || item.balance || 0
ItemValue(item) ==
  Or(Get(item, "total"), Or(Get(item, "amount"), Or(Get(item, "value"),
     Or(Get(item, "balance"), Num(0)))))

\* item.children || item.rows || item.items || item.line_items
ItemNested(item) ==
  Or(Get(item, "children"), Or(Get(item, "rows"), Or(Get(item, "items"),
     Get(item, "line_items"))))

\* r.amount || r.total || r.value || 0
RowValue(r) ==
  Or(Get(r, "amount"), Or(Get(r, "total"), Or(Get(r, "value"), Num(0))))

\* val.reduce((s, r) => s + Number(r.amount || r.total || r.value || 0), 0)
RECURSIVE SumSection(_, _)
SumSection(rows, n) ==
  IF n = 0 THEN Num(0)
  ELSE LET s == SumSection(rows, n - 1)
       IN IF s = Throw \/ Nullish(rows[n]) THEN Throw
          ELSE NumAdd(s, ToNumber(RowValue(rows[n])))

\* A section lookup that never reads val.total.
HasTotalNever(val) == FALSE

\* val?.total !== undefined
HasTotal(val) == OptGet(val, "total") # Undef

RECURSIVE extractTotal(_, _), ArrayScan(_, _, _), KeyScan(_, _, _)

\* The for-of loop over a list node, from element i on.
ArrayScan(items, keywords, i) ==
  IF i > Len(items) THEN Num(0)
  ELSE LET item == items[i] IN
    IF Nullish(item) THEN Throw
    ELSE LET name == ItemLabel(item) IN
      IF name.t # "string" THEN Throw
      ELSE IF someIncludes(toLowerCase(name.s), keywords)
           THEN ToNumber(ItemValue(item))
           ELSE LET nested == ItemNested(item) IN
             IF Truthy(nested)
             THEN LET found == extractTotal(nested, keywords) IN
                  IF found # Num(0) THEN found
                  ELSE ArrayScan(items, keywords, i + 1)
             ELSE ArrayScan(items, keywords, i + 1)

\* The loop over Object.keys of a plain-object node, from key i on.
KeyScan(data, keywords, i) ==
  IF i > Len(data.keys) THEN Num(0)
  ELSE LET key == data.keys[i]
           val == data.vals[i]
           hit == someIncludes(toLowerCase(key), keywords)
       IN
    IF hit /\ val.t \in {"number", "NaN"} THEN val
    ELSE IF hit /\ HasTotal(val) THEN ToNumber(OptGet(val, "total"))
    ELSE IF hit /\ OptGet(val, "amount") # Undef THEN ToNumber(OptGet(val, "amount"))
    ELSE IF hit /\ val.t = "array" THEN SumSection(val.kids, Len(val.kids))
    ELSE IF val.t \in {"array", "object"}
         THEN LET found == extractTotal(val, keywords) IN
              IF found # Num(0) THEN found
              ELSE KeyScan(data, keywords, i + 1)
         ELSE KeyScan(data, keywords, i + 1)

extractTotal(data, keywords) ==
  IF ~Truthy(data) THEN Num(0)
  ELSE IF data.t = "array" THEN ArrayScan(data.kids, keywords, 1)
  ELSE IF data.t = "object" THEN KeyScan(data, keywords, 1)
  ELSE Num(0)

(***************************************************************************)
(* round                                                                   *)
(***************************************************************************)
\* The default of round's decimals parameter.
DefaultDecimals == 2

RECURSIVE GCD(_, _)
GCD(a, b) == IF b = 0 THEN a ELSE GCD(b, a % b)

\* The exact value a / b of a division, b # 0, in lowest terms with a
\* positive denominator.
Quot(a, b) ==
  LET g == GCD(IF a < 0 THEN -a ELSE a, IF b < 0 THEN -b ELSE b)
      sign == IF b < 0 THEN -1 ELSE 1
  IN [t |-> "quotient", p |-> sign * (a \div g), q |-> sign * (b \div g)]

\* x - y, x > y and x < y on exact values; a comparison with NaN is false.
QSub(x, y) ==
  IF x.t = "quotient" /\ y.t = "quotient"
  THEN Quot(x.p * y.q - y.p * x.q, x.q * y.q)
  ELSE NaN
QGt(x, y) == x.t = "quotient" /\ y.t = "quotient" /\ x.p * y.q > y.p * x.q
QLt(x, y) == QGt(y, x)

RECURSIVE Pow10(_)
Pow10(d) == IF d = 0 THEN 1 ELSE 10 * Pow10(d - 1)

\* Math.round(p / q) = floor(p / q + 1/2), q # 0.
MathRound(p, q) ==
  IF q > 0 THEN (2 * p + q) \div (2 * q) ELSE (-(2 * p) - q) \div (-(2 * q))

\* The exact value of a number of thousandths.
Exact(a) == IF a.t = "number" THEN Quot(a.n, Unit) ELSE NaN

\* round(n, decimals): Math.round(n * factor) / factor with factor =
\* 10 ** decimals, for n an exact quotient (or NaN); the result is a number
\* of thousandths.
round(n, decimals) ==
  IF n.t # "quotient" THEN NaN
  ELSE LET factor == Pow10(decimals) IN
       Num(MathRound(n.p * factor, n.q) * (Unit \div factor))

\* a / b and (a / b) * 100 on numbers, b # 0
NumDiv(a, b) ==
  IF a.t = "number" /\ b.t = "number" THEN Quot(a.n, b.n) ELSE NaN
NumPercent(a, b) ==
  IF a.t = "number" /\ b.t = "number" THEN Quot(100 * a.n, b.n) ELSE NaN

(***************************************************************************)
(* buildFinancialSnapshot                                                  *)
(***************************************************************************)
\* A fallback that subtracts the reported (absolute) expenses.
ComputedNetOfAbs(netIncome, revenue, expenses) ==
  IF netIncome # Num(0) THEN netIncome ELSE NumSub(revenue, MathAbs(expenses))

\* netIncome !== 0 ? netIncome : revenue - expenses
ComputedNet(netIncome, revenue, expenses) ==
  IF netIncome # Num(0) THEN netIncome ELSE NumSub(revenue, expenses)

\* revenue !== 0 ? round((part / revenue) * 100) : null
MarginPercent(part, revenue) ==
  IF revenue # Num(0) THEN round(NumPercent(part, revenue), DefaultDecimals) ELSE Null

\* currentLiabilities !== 0 ? round(currentAssets / currentLiabilities) : null
CurrentRatio(currentAssets, currentLiabilities) ==
  IF currentLiabilities # Num(0)
  THEN round(NumDiv(currentAssets, currentLiabilities), DefaultDecimals)
  ELSE Null

\* A cash position that is null for the number 0 only.
CashPositionZeroOnly(cash) == IF cash = Num(0) THEN Null ELSE cash

\* cash || null
CashPosition(cash) == Or(cash, Null)

buildFinancialSnapshot(incomeStatement, balanceSheet, cashFlow, periodLabel) ==
  LET revenue == extractTotal(incomeStatement, RevenueKeywords)
      cogs == extractTotal(incomeStatement, CogsKeywords)
      expenses == extractTotal(incomeStatement, ExpenseKeywords)
      netIncome == extractTotal(incomeStatement, NetIncomeKeywords)
      computedNet == ComputedNet(netIncome, revenue, expenses)
      grossProfit == NumSub(revenue, MathAbs(cogs))
      cash == extractTotal(balanceSheet, CashKeywords)
      currentAssets == extractTotal(balanceSheet, CurrentAssetsKeywords)
      currentLiabilities == extractTotal(balanceSheet, CurrentLiabilitiesKeywords)
  IN IF Throw \in {revenue, cogs, expenses, netIncome, cash, currentAssets,
                   currentLiabilities}
     THEN Throw
     ELSE [ period |-> periodLabel,
            revenue |-> revenue,
            expenses |-> MathAbs(expenses),
            netIncome |-> computedNet,
            grossMarginPercent |-> MarginPercent(grossProfit, revenue),
            netMarginPercent |-> MarginPercent(computedNet, revenue),
            cashPosition |-> CashPosition(cash),
            currentRatio |-> CurrentRatio(currentAssets, currentLiabilities) ]

(***************************************************************************)
(* computeBurnRate                                                         *)
(***************************************************************************)
\* Burn as the header comment words it: revenue - expenses.
MonthBurnRevenueFirst(m) ==
  LET rev == extractTotal(m.data, RevenueKeywords)
      exp == extractTotal(m.data, ExpenseKeywords)
  IN IF rev = Throw \/ exp = Throw THEN Throw
     ELSE [month |-> m.label, burn |-> NumSub(rev, MathAbs(exp))]

\* (m) => { rev, exp = Math.abs(...); return { month: m.label, burn: exp - rev } }
MonthBurn(m) ==
  LET rev == extractTotal(m.data, RevenueKeywords)
      exp == extractTotal(m.data, ExpenseKeywords)
  IN IF rev = Throw \/ exp = Throw THEN Throw
     ELSE [month |-> m.label, burn |-> NumSub(MathAbs(exp), rev)]

\* burns.reduce((s, b) => s + b.burn, 0)
RECURSIVE SumBurns(_)
SumBurns(burns) ==
  IF burns = <<>> THEN Num(0)
  ELSE NumAdd(SumBurns(SubSeq(burns, 1, Len(burns) - 1)), burns[Len(burns)].burn)

\* burns.length > 0 ? round(sum / burns.length) : 0
AvgBurn(burns) ==
  IF Len(burns) > 0
  THEN round(NumDiv(SumBurns(burns), Num(Len(burns) * Unit)), DefaultDecimals)
  ELSE Num(0)

\* avgBurn * 0.1 and -avgBurn * 0.1
TenthOf(avgBurn) == IF avgBurn.t = "number" THEN Quot(avgBurn.n, 10 * Unit) ELSE NaN
MinusTenthOf(avgBurn) == IF avgBurn.t = "number" THEN Quot(-avgBurn.n, 10 * Unit) ELSE NaN

\* A trend whose first half takes the extra month of an odd count.
TrendLowerHalfExtra(burns, avgBurn) ==
  IF Len(burns) >= 3
  THEN LET mid == Len(burns) - (Len(burns) \div 2)
           firstHalf == NumDiv(SumBurns(SubSeq(burns, 1, mid)), Num(mid * Unit))
           secondHalf == NumDiv(SumBurns(SubSeq(burns, mid + 1, Len(burns))),
                                Num((Len(burns) - mid) * Unit))
           diff == QSub(secondHalf, firstHalf)
       IN IF QGt(diff, TenthOf(avgBurn)) THEN "increasing"
          ELSE IF QLt(diff, MinusTenthOf(avgBurn)) THEN "decreasing"
          ELSE "stable"
  ELSE "stable"

\* The trend of lines 119-127.
Trend(burns, avgBurn) ==
  IF Len(burns) >= 3
  THEN LET mid == Len(burns) \div 2
           firstHalf == NumDiv(SumBurns(SubSeq(burns, 1, mid)), Num(mid * Unit))
           secondHalf == NumDiv(SumBurns(SubSeq(burns, mid + 1, Len(burns))),
                                Num((Len(burns) - mid) * Unit))
           diff == QSub(secondHalf, firstHalf)
       IN IF QGt(diff, TenthOf(avgBurn)) THEN "increasing"
          ELSE IF QLt(diff, MinusTenthOf(avgBurn)) THEN "decreasing"
          ELSE "stable"
  ELSE "stable"

\* A runway that does not look at the sign of the cash.
RunwayMonthsAnyCash(avgBurn, cash) ==
  IF avgBurn.t = "number" /\ avgBurn.n > 0
  THEN round(NumDiv(cash, avgBurn), DefaultDecimals)
  ELSE Null

\* avgBurn > 0 && cash > 0 ? round(cash / avgBurn) : null
RunwayMonths(avgBurn, cash) ==
  IF avgBurn.t = "number" /\ avgBurn.n > 0 /\ cash.t = "number" /\ cash.n > 0
  THEN round(NumDiv(cash, avgBurn), DefaultDecimals)
  ELSE Null

computeBurnRate(monthlyStatements, balanceSheet) ==
  LET mapped == [i \in 1..Len(monthlyStatements) |-> MonthBurn(monthlyStatements[i])]
      cash == extractTotal(balanceSheet, CashKeywords)
  IN IF cash = Throw \/ \E i \in 1..Len(mapped) : mapped[i] = Throw THEN Throw
     ELSE LET avgBurn == AvgBurn(mapped) IN
          [ monthlyBurnAvg |-> avgBurn,
            monthlyBurns |-> mapped,
            trend |-> Trend(mapped, avgBurn),
            cashPosition |-> CashPosition(cash),
            runwayMonths |-> RunwayMonths(avgBurn, cash) ]

(***************************************************************************)
(* Bounded inputs of the statement search                                  *)
(***************************************************************************)
LabelKeys == <<"name", "label", "title", "account_name">>
ValueKeys == <<"total", "amount", "value", "balance">>
ChildKeys == <<"children", "rows", "items", "line_items">>

\* An object from parallel key and value lists, the absent (undefined) members
\* left out.
RECURSIVE Present(_, _)
Present(keys, vals) ==
  IF Len(keys) = 0 THEN Obj(<<>>, <<>>)
  ELSE LET rest == Present(Tail(keys), Tail(vals)) IN
       IF Head(vals) = Undef THEN rest
       ELSE Obj(<<Head(keys)>> \o rest.keys, <<Head(vals)>> \o rest.vals)

Row(label, total) == Obj(<<"name", "total">>, <<Str(label), Num(total)>>)

\* Elements that differ in which label fields they carry.
LabelValues == {Undef, Str(""), Str("Total Revenue"), Str("Misc")}
LabelElems ==
  { Present(<<LabelKeys[i], LabelKeys[j], "total">>, <<a, b, Num(7 * Unit)>>) :
      <<i, j, a, b>> \in { q \in (1..4) \X (1..4) \X LabelValues \X LabelValues :
                             q[1] < q[2] } }

\* Elements that differ in which value fields they carry.
FieldValues == {Undef, Num(0), Num(5 * Unit), Str("0"), Str("n/a")}
ValueElems ==
  { Present(<<"name", ValueKeys[i], ValueKeys[j]>>, <<Str(l), a, b>>) :
      <<l, i, j, a, b>> \in { q \in {"Net Income", "Misc"} \X (1..4) \X (1..4)
                                      \X FieldValues \X FieldValues : q[2] < q[3] } }

\* Siblings of the longer lists: matching and non-matching rows, rows with a
\* child collection, and malformed elements.
Siblings ==
  { Row("Revenue", 3 * Unit),
    Obj(<<"name", "total", "amount">>, <<Str("Sales"), Num(0), Num(4 * Unit)>>),
    Row("Misc", 9 * Unit),
    Obj(<<"name", "children">>, <<Str("Operating"), Arr(<<Row("Revenue", 2 * Unit)>>)>>),
    Obj(<<"name", "rows">>, <<Str("Group"), Arr(<<Row("Misc", Unit)>>)>>),
    Obj(<<"name", "items">>, <<Str("Other"), Arr(<<Row("Income", 0)>>)>>),
    Obj(<<"title", "line_items">>,
        <<Str("Lines"), Arr(<<Row("Misc", Unit), Row("Net Income", 6 * Unit)>>)>>),
    Obj(<<"name", "children", "rows">>,
        <<Str("Empty"), Arr(<<>>), Arr(<<Row("Revenue", 2 * Unit)>>)>>),
    Obj(<<"name", "total">>, <<Num(5 * Unit), Num(Unit)>>),
    Null,
    Num(7 * Unit),
    Str("Revenue") }

RECURSIVE SeqsUpTo(_, _)
SeqsUpTo(S, n) ==
  IF n = 0 THEN {<<>>}
  ELSE LET shorter == SeqsUpTo(S, n - 1) IN
       shorter \cup { Append(q, x) : q \in shorter, x \in S }

ListInputs ==
  { Arr(<<e>>) : e \in LabelElems \cup ValueElems }
    \cup { Arr(q) : q \in SeqsUpTo(Siblings, MaxLen) }

\* Values under the keys of a section map.
SectionValues ==
  { Num(0), Num(3 * Unit), Str("5"), Null,
    Obj(<<"total">>, <<Num(4 * Unit)>>),
    Obj(<<"amount">>, <<Num(6 * Unit)>>),
    Obj(<<"amount", "total">>, <<Num(6 * Unit), Num(4 * Unit)>>),
    Obj(<<"total">>, <<Null>>),
    Obj(<<"note">>, <<Str("n/a")>>),
    Arr(<<Obj(<<"amount">>, <<Num(Unit)>>), Obj(<<"total">>, <<Num(2 * Unit)>>)>>),
    Arr(<<Obj(<<"value", "amount">>, <<Num(3 * Unit), Num(0)>>), Num(Unit)>>),
    Arr(<<Null>>),
    Arr(<<>>),
    Obj(<<"Revenue">>, <<Num(8 * Unit)>>),
    Obj(<<"current">>, <<Obj(<<"Net Income">>, <<Str("n/a")>>)>>),
    Arr(<<Row("Revenue", 2 * Unit)>>) }
SectionKeys == {"revenue", "Total Income", "misc", "assets"}

ObjectInputs ==
  { Obj(<<k>>, <<v>>) : k \in SectionKeys, v \in SectionValues }
    \cup { Obj(<<q[1], q[2]>>, <<q[3], q[4]>>) :
             q \in { r \in SectionKeys \X SectionKeys \X SectionValues \X SectionValues :
                       r[1] # r[2] } }

ScalarInputs ==
  { Undef, Null, Num(0), Num(3 * Unit), Str(""), Str("revenue"), Bool(TRUE), Bool(FALSE) }

ExtractInputs == ListInputs \cup ObjectInputs \cup ScalarInputs
ExtractKeywords == {RevenueKeywords, NetIncomeKeywords, ExpenseKeywords}

(***************************************************************************)
(* Specification of the statement search: one call of extractTotal         *)
(***************************************************************************)
InitExtract ==
  /\ pc = "call"
  /\ call \in [fn : {"extractTotal"}, data : ExtractInputs, keywords : ExtractKeywords]
  /\ ret = Undef
  /\ promises = <<>>

ExtractTotalCall ==
  /\ pc = "call"
  /\ call.fn = "extractTotal"
  /\ ret' = extractTotal(call.data, call.keywords)
  /\ pc' = "done"
  /\ UNCHANGED <<call, promises>>

NextExtract == ExtractTotalCall

SpecExtract == InitExtract /\ [][NextExtract]_vars

(***************************************************************************)
(* Properties of the statement search on a list node                       *)
(***************************************************************************)
Min(S) == CHOOSE x \in S : \A y \in S : x <= y

\* The first member of keys that the element carries at all (undefined when
\* it carries none): the "first present" reading.
FirstPresent(item, keys) ==
  LET has == { i \in 1..Len(keys) : Get(item, keys[i]) # Undef } IN
  IF has = {} THEN Undef ELSE Get(item, keys[Min(has)])

\* The first member of keys whose value is truthy (undefined when none is).
FirstTruthy(item, keys) ==
  LET has == { i \in 1..Len(keys) : Truthy(Get(item, keys[i])) } IN
  IF has = {} THEN Undef ELSE Get(item, keys[Min(has)])

\* The element's label under a reading pick of its label fields contains a keyword.
LabelMatches(item, keywords, pick(_, _)) ==
  /\ ~Nullish(item)
  /\ LET l == pick(item, LabelKeys) IN
       l.t = "string" /\ someIncludes(toLowerCase(l.s), keywords)

\* The element is passed over by the scan: it is not null, its label is a
\* string (or absent) without a keyword, and no child collection of it holds
\* a nonzero result.
PassedOver(item, keywords) ==
  /\ ~Nullish(item)
  /\ FirstTruthy(item, LabelKeys).t \in {"string", "undefined"}
  /\ ~LabelMatches(item, keywords, FirstTruthy)
  /\ LET nested == FirstTruthy(item, ChildKeys) IN
       Truthy(nested) => extractTotal(nested, keywords) = Num(0)

\* The list holds only mappings without child collections.
FlatRows(items) ==
  \A i \in 1..Len(items) :
    items[i].t = "object" /\ FirstPresent(items[i], ChildKeys) = Undef

\* C1 as stated: on a list node the result is the first present of total,
\* amount, value, balance (a present 0 included) of the first element whose
\* label, the first present of name, label, title, account_name, contains a
\* keyword.  Stated for lists of plain rows, where nothing else interferes.
C1_FirstPresentValue ==
  (pc = "done" /\ call.data.t = "array" /\ FlatRows(call.data.kids)) =>
    LET items == call.data.kids
        hits == { i \in 1..Len(items) :
                    LabelMatches(items[i], call.keywords, FirstPresent) }
    IN hits # {} =>
         LET v == FirstPresent(items[Min(hits)], ValueKeys) IN
         ret = IF v = Undef THEN Num(0) ELSE ToNumber(v)

\* C1 as amended: on a list node, when the first element whose label (the
\* first truthy of name, label, title, account_name, lowercased) contains a
\* keyword is reached, the result is Number() of the first truthy of its
\* total, amount, value, balance, and 0 when none is truthy; a field holding
\* 0 is skipped.  Later matching siblings add nothing to it.
C1_FirstMatchWins ==
  (pc = "done" /\ call.data.t = "array") =>
    LET items == call.data.kids
        hits == { i \in 1..Len(items) :
                    LabelMatches(items[i], call.keywords, FirstTruthy) }
    IN (hits # {} /\ \A j \in 1..(Min(hits) - 1) : PassedOver(items[j], call.keywords)) =>
         LET v == FirstTruthy(items[Min(hits)], ValueKeys) IN
         ret = IF v = Undef THEN Num(0) ELSE ToNumber(v)

\* Two matching siblings, the first with total 0 and a nonzero amount: the
\* amount of the first is the result.
C1_Witness ==
  /\ pc = "done"
  /\ call.data.t = "array"
  /\ Len(call.data.kids) = 2
  /\ \A i \in 1..2 : LabelMatches(call.data.kids[i], call.keywords, FirstTruthy)
  /\ Get(call.data.kids[1], "total") = Num(0)
  /\ Get(call.data.kids[2], "total") = Num(3 * Unit)
  /\ ret = Num(4 * Unit)

(***************************************************************************)
(* Properties of the statement search on a plain-object node               *)
(***************************************************************************)
\* Sum, front to back, of Number(first truthy of amount, total, value, else 0)
\* over the rows of a section list.
RECURSIVE RowSum(_)
RowSum(rows) ==
  IF rows = <<>> THEN Num(0)
  ELSE LET v == FirstTruthy(Head(rows), <<"amount", "total", "value">>) IN
       NumAdd(IF v = Undef THEN Num(0) ELSE ToNumber(v), RowSum(Tail(rows)))

NoNullRows(val) ==
  val.t = "array" => \A i \in 1..Len(val.kids) : ~Nullish(val.kids[i])

KeyHit(data, keywords, i) == someIncludes(toLowerCase(data.keys[i]), keywords)

\* C2 as stated, for a mapping whose first key contains a keyword: a number
\* is returned as it is; else a value with an amount sub-property gives that
\* amount; else a list gives the sum over its rows.
C2_AmountSubProperty ==
  (/\ pc = "done"
   /\ call.data.t = "object"
   /\ Len(call.data.keys) >= 1
   /\ KeyHit(call.data, call.keywords, 1)
   /\ NoNullRows(call.data.vals[1])) =>
    LET val == call.data.vals[1] IN
      /\ val.t = "number" => ret = val
      /\ (val.t # "number" /\ OptGet(val, "amount") # Undef) =>
           ret = ToNumber(OptGet(val, "amount"))
      /\ (val.t # "number" /\ OptGet(val, "amount") = Undef /\ val.t = "array") =>
           ret = RowSum(val.kids)

\* What key i of a mapping yields when the scan reaches it: the value it
\* returns, or Undef when the scan goes on to the next key.
KeyYield(data, keywords, i) ==
  LET val == data.vals[i]
      sub == IF val.t \in {"array", "object"} THEN extractTotal(val, keywords) ELSE Num(0)
  IN IF KeyHit(data, keywords, i) /\ val.t = "number" THEN val
     ELSE IF KeyHit(data, keywords, i) /\ OptGet(val, "total") # Undef
          THEN ToNumber(OptGet(val, "total"))
     ELSE IF KeyHit(data, keywords, i) /\ OptGet(val, "amount") # Undef
          THEN ToNumber(OptGet(val, "amount"))
     ELSE IF KeyHit(data, keywords, i) /\ val.t = "array" THEN RowSum(val.kids)
     ELSE IF sub # Num(0) THEN sub
     ELSE Undef

\* C2 as amended: the keys of a mapping are taken in key order.  A key whose
\* lowercased name contains a keyword returns its value when that is a
\* number, else Number(value.total) when the value has a total sub-property,
\* else Number(value.amount) when it has an amount sub-property, else, when
\* the value is a list, the sum over its rows of Number(first truthy of
\* amount, total, value, else 0).  Any other key whose value is a list or a
\* mapping is searched recursively and a nonzero result is returned at once.
\* The result is that of the first key that returns, and 0 when none does.
C2_SectionLookup ==
  (/\ pc = "done"
   /\ call.data.t = "object"
   /\ \A i \in 1..Len(call.data.keys) :
        KeyHit(call.data, call.keywords, i) => NoNullRows(call.data.vals[i])) =>
    LET deciding == { i \in 1..Len(call.data.keys) :
                        KeyYield(call.data, call.keywords, i) # Undef }
    IN ret = IF deciding = {} THEN Num(0)
             ELSE KeyYield(call.data, call.keywords, Min(deciding))

\* A matching key whose value carries both amount and total, after a key
\* that does not match: the total is the result.
C2_Witness ==
  /\ pc = "done"
  /\ call.data.t = "object"
  /\ Len(call.data.keys) = 2
  /\ ~KeyHit(call.data, call.keywords, 1)
  /\ KeyHit(call.data, call.keywords, 2)
  /\ call.data.vals[2] = Obj(<<"amount", "total">>, <<Num(6 * Unit), Num(4 * Unit)>>)
  /\ ret = Num(4 * Unit)

\* A matching key whose value is a list of rows: their sum is the result.
C2_WitnessSum ==
  /\ pc = "done"
  /\ call.data.t = "object"
  /\ KeyHit(call.data, call.keywords, 1)
  /\ call.data.vals[1].t = "array"
  /\ Len(call.data.vals[1].kids) = 2
  /\ ret = Num(3 * Unit)

(***************************************************************************)
(* Totality of the statement search                                        *)
(***************************************************************************)
\* Some key, or some string under a label field, at any depth of the tree
\* contains a keyword.
RECURSIVE MentionsKeyword(_, _)
MentionsKeyword(x, keywords) ==
  CASE x.t = "array" ->
         \E i \in 1..Len(x.kids) : MentionsKeyword(x.kids[i], keywords)
    [] x.t = "object" ->
         \E i \in 1..Len(x.keys) :
           \/ someIncludes(toLowerCase(x.keys[i]), keywords)
           \/ /\ x.vals[i].t = "string"
              /\ \E j \in 1..Len(LabelKeys) : LabelKeys[j] = x.keys[i]
              /\ someIncludes(toLowerCase(x.vals[i].s), keywords)
           \/ MentionsKeyword(x.vals[i], keywords)
    [] OTHER -> FALSE

\* C3: the search never raises, whatever the tree, and returns 0 when no
\* label or key at any depth contains a keyword.
C3_NeverFails ==
  pc = "done" =>
    /\ ret # Throw
    /\ ~MentionsKeyword(call.data, call.keywords) => ret = Num(0)

(***************************************************************************)
(* Specification of the snapshot composer: one call of                     *)
(* buildFinancialSnapshot                                                  *)
(***************************************************************************)
\* An income statement as a list of rows; a row whose amount is undefined is
\* left out.
IncomeRows(rev, cogs, exp, net) ==
  LET row(label, v) == IF v = Undef THEN <<>>
                       ELSE <<Obj(<<"name", "total">>, <<Str(label), v>>)>>
  IN Arr(row("Revenue", rev) \o row("Cost of Goods Sold", cogs)
           \o row("Operating Expenses", exp) \o row("Net Income", net))

IncomeInputs ==
  { IncomeRows(r, c, e, n) :
      r \in {Undef, Num(0), Num(3 * Unit), Num(-8 * Unit), Str("n/a")},
      c \in {Undef, Num(Unit), Num(-Unit)},
      e \in {Undef, Num(2 * Unit), Num(-2 * Unit)},
      n \in {Undef, Num(0), Num(Unit), Num(250), Num(-250)} }
    \cup { Null, Arr(<<Null>>), Obj(<<"revenue", "expense">>, <<Num(3 * Unit), Num(2 * Unit)>>) }

\* A balance sheet as a section map; a section whose total is undefined is
\* left out.
BalanceSections(cash, assets, liabilities) ==
  LET sec(v) == IF v = Undef THEN Undef ELSE Obj(<<"total">>, <<v>>) IN
  Present(<<"Cash and Cash Equivalents", "Total Current Assets",
            "Total Current Liabilities">>,
          <<sec(cash), sec(assets), sec(liabilities)>>)

BalanceInputs ==
  { BalanceSections(c, a, l) :
      c \in {Undef, Num(0), Num(5 * Unit), Num(-Unit), Str("n/a")},
      a \in {Undef, Num(6 * Unit), Num(Unit)},
      l \in {Undef, Num(0), Num(4 * Unit), Num(-3 * Unit), Str("n/a")} }
    \cup { Null, Obj(<<"Bank">>, <<Arr(<<Null>>)>>) }

InitSnapshot ==
  /\ pc = "call"
  /\ call \in [fn : {"buildFinancialSnapshot"}, incomeStatement : IncomeInputs,
               balanceSheet : BalanceInputs, cashFlow : {Null},
               periodLabel : {"Jan 2026"}]
  /\ ret = Undef
  /\ promises = <<>>

BuildFinancialSnapshotCall ==
  /\ pc = "call"
  /\ call.fn = "buildFinancialSnapshot"
  /\ ret' = buildFinancialSnapshot(call.incomeStatement, call.balanceSheet,
                                   call.cashFlow, call.periodLabel)
  /\ pc' = "done"
  /\ UNCHANGED <<call, promises>>

NextSnapshot == BuildFinancialSnapshotCall

SpecSnapshot == InitSnapshot /\ [][NextSnapshot]_vars

Abs(x) == IF x < 0 THEN -x ELSE x

\* The number x (of thousandths) is a multiple of 1/100 nearest to the exact
\* value p / q: no further from it than half a hundredth.
NearestHundredth(x, p, q) ==
  /\ x.t = "number"
  /\ x.n % (Unit \div 100) = 0
  /\ 2 * Abs((x.n \div (Unit \div 100)) * q - 100 * p) <= Abs(q)

\* The four searches of the income statement and the three of the balance
\* sheet, as the composer issues them.
SearchedRevenue == extractTotal(call.incomeStatement, RevenueKeywords)
SearchedCogs == extractTotal(call.incomeStatement, CogsKeywords)
SearchedExpenses == extractTotal(call.incomeStatement, ExpenseKeywords)
SearchedNetIncome == extractTotal(call.incomeStatement, NetIncomeKeywords)
SearchedCash == extractTotal(call.balanceSheet, CashKeywords)
SearchedCurrentAssets == extractTotal(call.balanceSheet, CurrentAssetsKeywords)
SearchedCurrentLiabilities == extractTotal(call.balanceSheet, CurrentLiabilitiesKeywords)

SnapshotReturned == pc = "done" /\ call.fn = "buildFinancialSnapshot" /\ ret # Throw

\* C4: the snapshot's netIncome is the searched net income when that is not
\* 0, and the searched revenue minus the searched expenses when it is 0.
C4_NetIncomeFallback ==
  SnapshotReturned =>
    LET net == SearchedNetIncome
        rev == SearchedRevenue
        exp == SearchedExpenses
    IN /\ net # Num(0) => ret.netIncome = net
       /\ (net = Num(0) /\ rev.t = "number" /\ exp.t = "number") =>
            /\ ret.netIncome.t = "number"
            /\ ret.netIncome.n = rev.n - exp.n
       /\ (net = Num(0) /\ (rev.t # "number" \/ exp.t # "number")) =>
            ret.netIncome = NaN

\* A statement without a net income line and with a negative expense line:
\* the fallback is revenue minus the signed expenses.
C4_Witness ==
  /\ SnapshotReturned
  /\ SearchedNetIncome = Num(0)
  /\ SearchedRevenue = Num(3 * Unit)
  /\ SearchedExpenses = Num(-2 * Unit)
  /\ ret.netIncome = Num(5 * Unit)

\* A statement with a net income line: it is reported as found.
C4_WitnessFound ==
  /\ SnapshotReturned
  /\ SearchedNetIncome = Num(-250)
  /\ SearchedRevenue = Num(3 * Unit)
  /\ ret.netIncome = Num(-250)

\* x is round(k * a / b): a multiple of 1/100 nearest to the exact value, and
\* NaN when an operand is not a number.
RoundedFrom(x, k, a, b) ==
  IF a.t = "number" /\ b.t = "number"
  THEN NearestHundredth(x, k * a.n, b.n)
  ELSE x = NaN

\* The zero rules of the margins and of the current ratio.
MarginAndRatioRules ==
  LET rev == SearchedRevenue
      assets == SearchedCurrentAssets
      liabilities == SearchedCurrentLiabilities
  IN /\ (ret.grossMarginPercent = Null) <=> (rev = Num(0))
     /\ (ret.netMarginPercent = Null) <=> (rev = Num(0))
     /\ rev # Num(0) =>
          /\ RoundedFrom(ret.grossMarginPercent, 100,
                         NumSub(rev, MathAbs(SearchedCogs)), rev)
          /\ RoundedFrom(ret.netMarginPercent, 100, ret.netIncome, rev)
     /\ (ret.currentRatio = Null) <=> (liabilities = Num(0))
     /\ liabilities # Num(0) => RoundedFrom(ret.currentRatio, 1, assets, liabilities)

\* C5 as stated: the margins are null exactly when revenue is 0 and else the
\* rounded percentages; currentRatio is null exactly when current liabilities
\* is 0 and else the rounded quotient; cashPosition is null exactly when the
\* cash search returns 0, and else the cash value.
C5_ZeroRules ==
  SnapshotReturned =>
    /\ MarginAndRatioRules
    /\ (ret.cashPosition = Null) <=> (SearchedCash = Num(0))
    /\ SearchedCash # Num(0) => ret.cashPosition = SearchedCash

\* C5 as amended: as stated, but cashPosition is null exactly when the cash
\* search returns 0 or NaN (a cash line that is not numeric), and else the
\* cash value.
C5_ZeroOrNaNRules ==
  SnapshotReturned =>
    /\ MarginAndRatioRules
    /\ (ret.cashPosition = Null) <=> (SearchedCash \in {Num(0), NaN})
    /\ SearchedCash \notin {Num(0), NaN} => ret.cashPosition = SearchedCash

\* Revenue 3 with cost of goods sold 1, assets 1 against liabilities -3 and a
\* cash line that is not a number: 66.67 percent, ratio -0.33, cash null.
C5_Witness ==
  /\ SnapshotReturned
  /\ SearchedRevenue = Num(3 * Unit)
  /\ SearchedCogs = Num(-Unit)
  /\ SearchedCash = NaN
  /\ ret.grossMarginPercent = Num(66670)
  /\ ret.currentRatio = Num(-330)
  /\ ret.cashPosition = Null

\* Zero revenue and zero liabilities: margins and ratio are null.
C5_WitnessNull ==
  /\ SnapshotReturned
  /\ SearchedRevenue = Num(0)
  /\ SearchedCurrentLiabilities = Num(0)
  /\ SearchedCurrentAssets = Num(6 * Unit)
  /\ SearchedCash = Num(5 * Unit)
  /\ ret.grossMarginPercent = Null
  /\ ret.currentRatio = Null
  /\ ret.cashPosition = Num(5 * Unit)

(***************************************************************************)
(* Specification of the burn-rate composer: one call of computeBurnRate    *)
(***************************************************************************)
\* A monthly income statement with the given revenue and expense lines.
MonthData(rev, exp) ==
  Arr(<<Obj(<<"name", "total">>, <<Str("Revenue"), rev>>),
        Obj(<<"name", "total">>, <<Str("Expenses"), exp>>)>>)

\* Monthly statements with burns 2, -2 (a negative expense line and a
\* profit), 0 (no lines), 20, 21, and one whose revenue is not a number.
MonthInputs ==
  { MonthData(Num(Unit), Num(3 * Unit)),
    MonthData(Num(3 * Unit), Num(-Unit)),
    Arr(<<>>),
    MonthData(Num(0), Num(20 * Unit)),
    MonthData(Num(4 * Unit), Num(25 * Unit)),
    MonthData(Str("n/a"), Num(3 * Unit)) }

MonthLabels == <<"Sep 2025", "Oct 2025", "Nov 2025", "Dec 2025", "Jan 2026", "Feb 2026">>

\* The statements of the months before the current one, oldest first, each
\* under its own label.
MonthlyInputs ==
  { [i \in 1..Len(q) |-> [label |-> MonthLabels[i], data |-> q[i]]] :
      q \in SeqsUpTo(MonthInputs, MaxMonths) }

BurnBalanceInputs ==
  { Obj(<<>>, <<>>),
    Obj(<<"Cash">>, <<Obj(<<"total">>, <<Num(50 * Unit)>>)>>),
    Obj(<<"Cash">>, <<Obj(<<"total">>, <<Num(-Unit)>>)>>),
    Obj(<<"Cash">>, <<Obj(<<"total">>, <<Str("n/a")>>)>>),
    Arr(<<Null>>) }

InitBurn ==
  /\ pc = "call"
  /\ call \in [fn : {"computeBurnRate"}, monthlyStatements : MonthlyInputs,
               balanceSheet : BurnBalanceInputs]
  /\ ret = Undef
  /\ promises = <<>>

ComputeBurnRateCall ==
  /\ pc = "call"
  /\ call.fn = "computeBurnRate"
  /\ ret' = computeBurnRate(call.monthlyStatements, call.balanceSheet)
  /\ pc' = "done"
  /\ UNCHANGED <<call, promises>>

NextBurn == ComputeBurnRateCall

SpecBurn == InitBurn /\ [][NextBurn]_vars

BurnReturned == pc = "done" /\ call.fn = "computeBurnRate" /\ ret # Throw

\* |expenses| - revenue of month i, from the two searches of its statement.
ExpectedBurn(i) ==
  LET rev == extractTotal(call.monthlyStatements[i].data, RevenueKeywords)
      exp == extractTotal(call.monthlyStatements[i].data, ExpenseKeywords)
  IN IF rev.t = "number" /\ exp.t = "number" THEN Num(Abs(exp.n) - rev.n) ELSE NaN

\* The reported burns are all numbers.
NumericBurns == \A i \in 1..Len(ret.monthlyBurns) : ret.monthlyBurns[i].burn.t = "number"

\* Sum of the reported burns i..j, in thousandths.
RECURSIVE BurnTotal(_, _)
BurnTotal(i, j) == IF i > j THEN 0 ELSE ret.monthlyBurns[i].burn.n + BurnTotal(i + 1, j)

C6_WitnessEmpty ==
  /\ BurnReturned
  /\ call.monthlyStatements = <<>>
  /\ ret.monthlyBurnAvg = Num(0)

\* With n >= 3 months of numeric burns and mid = n \div 2: the sign of
\* (mean of the second half - mean of the first half) - tenths/10 * avg,
\* i.e. of diff minus that many tenths of the reported average.
DiffAgainst(tenths) ==
  LET n == Len(ret.monthlyBurns)
      mid == n \div 2
      s1 == BurnTotal(1, mid)
      s2 == BurnTotal(mid + 1, n)
  IN 10 * (s2 * mid - s1 * (n - mid)) - tenths * ret.monthlyBurnAvg.n * mid * (n - mid)

C7_HoldsForNonNegativeAverage ==
  (BurnReturned /\ Len(ret.monthlyBurns) >= 3 /\ NumericBurns
     /\ ret.monthlyBurnAvg.n >= 0) =>
    /\ DiffAgainst(1) > 0 => ret.trend = "increasing"
    /\ DiffAgainst(-1) < 0 => ret.trend = "decreasing"
    /\ (DiffAgainst(1) <= 0 /\ DiffAgainst(-1) >= 0) => ret.trend = "stable"

\* C8: 3 or more months whose burns are all the same value, of any sign,
\* have trend "stable".
C8_EqualBurnsStable ==
  (/\ BurnReturned
   /\ Len(ret.monthlyBurns) >= 3
   /\ NumericBurns
   /\ \A i \in 1..Len(ret.monthlyBurns) :
        ret.monthlyBurns[i].burn = ret.monthlyBurns[1].burn) =>
    ret.trend = "stable"

\* C9: runwayMonths is round(cash / monthlyBurnAvg) exactly when the average
\* burn and the cash are both above 0, and null in every other case.
C9_RunwayRule ==
  BurnReturned =>
    LET cash == extractTotal(call.balanceSheet, CashKeywords)
        avg == ret.monthlyBurnAvg
    IN IF avg.t = "number" /\ avg.n > 0 /\ cash.t = "number" /\ cash.n > 0
       THEN NearestHundredth(ret.runwayMonths, cash.n, avg.n)
       ELSE ret.runwayMonths = Null

\* Cash 50 against an average burn of 0.67: a runway of 74.63 months.
C9_Witness ==
  /\ BurnReturned
  /\ ret.monthlyBurnAvg = Num(670)
  /\ ret.cashPosition = Num(50 * Unit)
  /\ ret.runwayMonths = Num(74630)

\* A positive average burn with negative cash: no runway.
C9_WitnessNull ==
  /\ BurnReturned
  /\ ret.monthlyBurnAvg.t = "number"
  /\ ret.monthlyBurnAvg.n > 0
  /\ ret.cashPosition = Num(-Unit)
  /\ ret.runwayMonths = Null

(***************************************************************************)
(* Shapers: shared pieces                                                  *)
(***************************************************************************)
\* Most elements of a bounded input list of a shaper.
MaxItems == 2

\* a ?? b
Coalesce(a, b) == IF Nullish(a) THEN b ELSE a

\* The property key of a grouping name.  The bounded inputs name groups by
\* strings (none of them a canonical array index, so insertion order is
\* Object.keys order).
PropertyKey(v) == v.s

EmptyRecord == Obj(<<>>, <<>>)

\* groups[k] after `if (!groups[k]) groups[k] = init`.
EntryOr(groups, k, init) ==
  IF \E i \in 1..Len(groups.keys) : groups.keys[i] = k
  THEN groups.vals[CHOOSE i \in 1..Len(groups.keys) : groups.keys[i] = k]
  ELSE init

\* groups after groups[k] = v: a new key is added last.
Put(groups, k, v) ==
  IF \E i \in 1..Len(groups.keys) : groups.keys[i] = k
  THEN Obj(groups.keys,
           [i \in 1..Len(groups.keys) |-> IF groups.keys[i] = k THEN v ELSE groups.vals[i]])
  ELSE Obj(Append(groups.keys, k), Append(groups.vals, v))

\* A total that keeps only the last addend (`total = x`).
LastNumber(xs) == IF xs = <<>> THEN Num(0) ELSE xs[Len(xs)]

\* The running total `total += x` over a list of numbers, from 0.
RECURSIVE SumNumbers(_)
SumNumbers(xs) ==
  IF xs = <<>> THEN Num(0)
  ELSE NumAdd(SumNumbers(SubSeq(xs, 1, Len(xs) - 1)), xs[Len(xs)])

\* round(x) of a number with the default 2 decimals
round2(x) == round(Exact(x), DefaultDecimals)

\* list.length
Length(xs) == Num(Len(xs) * Unit)

\* A list argument on which .map can be called with a callback that reads
\* properties of each element.
Mappable(list) ==
  /\ list.t = "array"
  /\ \A i \in 1..Len(list.kids) : ~Nullish(list.kids[i])

(***************************************************************************)
(* enrichTransactions                                                      *)
(***************************************************************************)
\* The callback of transactions.map, lines 156-181, without its updates of
\* the totals.
ShapeTransaction(t) ==
  [ id |-> Get(t, "id"),
    date |-> Or(Get(t, "date"), Get(t, "transaction_date")),
    description |-> Or(Get(t, "description"), Get(t, "memo")),
    accountName |-> Or(Get(t, "account_name"), Get(t, "accountName")),
    accountType |-> Or(Get(t, "account_type"), Or(Get(t, "accountType"), Str("Unknown"))),
    vendorName |-> Or(Get(t, "vendor_name"), Get(t, "vendorName")),
    departmentName |-> Or(Get(t, "department_name"), Get(t, "departmentName")),
    debit |-> ToNumber(Or(Get(t, "debit_amount"), Or(Get(t, "debit"), Num(0)))),
    credit |-> ToNumber(Or(Get(t, "credit_amount"), Or(Get(t, "credit"), Num(0)))) ]

\* byAccountType after the elements of `shaped`, lines 162-168.
RECURSIVE TransactionGroups(_)
TransactionGroups(shaped) ==
  IF shaped = <<>> THEN EmptyRecord
  ELSE LET t == shaped[Len(shaped)] IN
       LET groups == TransactionGroups(SubSeq(shaped, 1, Len(shaped) - 1))
           k == PropertyKey(t.accountType)
           e == EntryOr(groups, k, [count |-> Num(0), debits |-> Num(0), credits |-> Num(0)])
       IN Put(groups, k,
              [count |-> NumAdd(e.count, Num(Unit)),
               debits |-> NumAdd(e.debits, t.debit),
               credits |-> NumAdd(e.credits, t.credit)])

enrichTransactions(transactions) ==
  IF ~Mappable(transactions) THEN Throw
  ELSE LET shaped == [i \in 1..Len(transactions.kids) |->
                        ShapeTransaction(transactions.kids[i])]
       IN [ totalTransactions |-> Length(transactions.kids),
            totalDebits |-> round2(SumNumbers([i \in 1..Len(shaped) |-> shaped[i].debit])),
            totalCredits |-> round2(SumNumbers([i \in 1..Len(shaped) |-> shaped[i].credit])),
            byAccountType |-> TransactionGroups(shaped),
            transactions |-> shaped ]

(***************************************************************************)
(* analyzeAging                                                            *)
(***************************************************************************)
\* Thresholds that put the boundary days 30, 60 and 90 in the next bucket.
categorizeDaysExclusive(days) ==
  LET d == ToNumber(days) IN
  IF d.t = "number" /\ d.n < 30 * Unit THEN Str("0-30")
  ELSE IF d.t = "number" /\ d.n < 60 * Unit THEN Str("31-60")
  ELSE IF d.t = "number" /\ d.n < 90 * Unit THEN Str("61-90")
  ELSE Str("90+")

\* categorizeDays(days): a relational comparison converts its operand with
\* Number(), and is false on NaN.
categorizeDays(days) ==
  LET d == ToNumber(days) IN
  IF d.t = "number" /\ d.n <= 30 * Unit THEN Str("0-30")
  ELSE IF d.t = "number" /\ d.n <= 60 * Unit THEN Str("31-60")
  ELSE IF d.t = "number" /\ d.n <= 90 * Unit THEN Str("61-90")
  ELSE Str("90+")

\* item.aging_bucket || item.bucket || item.age_bucket || categorizeDays(...)
AgingBucket(item) ==
  Or(Get(item, "aging_bucket"),
     Or(Get(item, "bucket"),
        Or(Get(item, "age_bucket"),
           categorizeDays(Or(Get(item, "days_outstanding"),
                             Or(Get(item, "days"), Num(0)))))))

\* Number(item.days_outstanding || item.days || 0)
AgingDays(item) ==
  ToNumber(Or(Get(item, "days_outstanding"), Or(Get(item, "days"), Num(0))))

\* The element returned by the callback of agingData.map, lines 207-233.
ShapeAgingItem(item) ==
  [ name |-> Or(Get(item, "vendor_name"), Or(Get(item, "customer_name"), Get(item, "name"))),
    amount |-> ToNumber(Or(Get(item, "amount"),
                           Or(Get(item, "balance"), Or(Get(item, "outstanding"), Num(0))))),
    bucket |-> AgingBucket(item),
    days |-> AgingDays(item),
    invoiceNumber |-> Or(Get(item, "invoice_number"), Get(item, "reference")),
    dueDate |-> Get(item, "due_date") ]

\* days >= 90 || bucket.includes("90")
IsCritical(shapedItem) ==
  \/ shapedItem.days.t = "number" /\ shapedItem.days.n >= 90 * Unit
  \/ includes(shapedItem.bucket.s, "90")

\* The entry pushed on criticalItems, lines 218-223.
CriticalEntry(shapedItem) ==
  [ name |-> shapedItem.name, amount |-> shapedItem.amount,
    days |-> shapedItem.days, bucket |-> shapedItem.bucket ]

RECURSIVE CriticalItems(_)
CriticalItems(items) ==
  IF items = <<>> THEN <<>>
  ELSE LET rest == CriticalItems(SubSeq(items, 1, Len(items) - 1))
           last == items[Len(items)]
       IN IF IsCritical(last) THEN Append(rest, CriticalEntry(last)) ELSE rest

\* buckets after the elements of `items`, lines 212-214, before rounding.
RECURSIVE AgingBuckets(_)
AgingBuckets(items) ==
  IF items = <<>> THEN EmptyRecord
  ELSE LET item == items[Len(items)] IN
       LET groups == AgingBuckets(SubSeq(items, 1, Len(items) - 1))
           k == PropertyKey(item.bucket)
           b == EntryOr(groups, k, [count |-> Num(0), total |-> Num(0)])
       IN Put(groups, k,
              [count |-> NumAdd(b.count, Num(Unit)),
               total |-> NumAdd(b.total, item.amount)])

\* for (const b of Object.values(buckets)) b.total = round(b.total)
RoundTotals(groups) ==
  Obj(groups.keys,
      [i \in 1..Len(groups.keys) |->
         [groups.vals[i] EXCEPT !.total = round2(groups.vals[i].total)]])

analyzeAging(agingData, agingType) ==
  IF ~Mappable(agingData) THEN Throw
  ELSE LET items == [i \in 1..Len(agingData.kids) |-> ShapeAgingItem(agingData.kids[i])]
       IN IF \E i \in 1..Len(items) :
               items[i].bucket.t # "string"
               /\ ~(items[i].days.t = "number" /\ items[i].days.n >= 90 * Unit)
          THEN Throw
          ELSE [ type |-> Or(agingType, Str("combined")),
                 totalOutstanding |->
                   round2(SumNumbers([i \in 1..Len(items) |-> items[i].amount])),
                 buckets |-> RoundTotals(AgingBuckets(items)),
                 criticalItems |-> CriticalItems(items),
                 items |-> items ]

(***************************************************************************)
(* analyzeContracts                                                        *)
(***************************************************************************)
\* A portfolio percentage that is null for a revenue of exactly 0 only.
PercentRecognizedNonZero(totalBilled, totalRevenue) ==
  IF totalRevenue # Num(0)
  THEN round(NumPercent(totalBilled, totalRevenue), DefaultDecimals)
  ELSE Null

\* A portfolio percentage that reports 0 when there is no revenue.
PercentRecognizedZero(totalBilled, totalRevenue) ==
  IF totalRevenue.t = "number" /\ totalRevenue.n > 0
  THEN round(NumPercent(totalBilled, totalRevenue), DefaultDecimals)
  ELSE Num(0)

\* totalRevenue > 0 ? round((totalBilled / totalRevenue) * 100) : null
PercentRecognized(totalBilled, totalRevenue) ==
  IF totalRevenue.t = "number" /\ totalRevenue.n > 0
  THEN round(NumPercent(totalBilled, totalRevenue), DefaultDecimals)
  ELSE Null

\* The callback of contracts.map, lines 273-293.
ShapeContract(c) ==
  LET rev == ToNumber(Or(Get(c, "total_revenue"),
                         Or(Get(c, "totalRevenue"), Or(Get(c, "contract_value"), Num(0)))))
      billed == ToNumber(Or(Get(c, "total_billed"),
                            Or(Get(c, "totalBilled"),
                               Or(Get(c, "recognized_revenue"), Num(0)))))
      unbilled == ToNumber(Or(Get(c, "total_unbilled"),
                              Or(Get(c, "totalUnbilled"), NumSub(rev, billed))))
  IN [ id |-> Get(c, "id"),
       name |-> Or(Get(c, "name"), Get(c, "contract_name")),
       clientName |-> Or(Get(c, "client_name"), Get(c, "clientName")),
       status |-> Get(c, "status"),
       totalRevenue |-> rev,
       recognized |-> billed,
       remaining |-> unbilled,
       percentRecognized |->
         IF rev.t = "number" /\ rev.n > 0
         THEN round(NumPercent(billed, rev), DefaultDecimals)
         ELSE Num(0),
       startDate |-> Or(Get(c, "start_date"), Get(c, "startDate")),
       endDate |-> Or(Get(c, "end_date"), Get(c, "endDate")) ]

analyzeContracts(contracts) ==
  IF ~Mappable(contracts) THEN Throw
  ELSE LET shaped == [i \in 1..Len(contracts.kids) |-> ShapeContract(contracts.kids[i])]
           totalRevenue == SumNumbers([i \in 1..Len(shaped) |-> shaped[i].totalRevenue])
           totalBilled == SumNumbers([i \in 1..Len(shaped) |-> shaped[i].recognized])
           totalUnbilled == SumNumbers([i \in 1..Len(shaped) |-> shaped[i].remaining])
       IN [ totalContracts |-> Length(contracts.kids),
            totalRevenue |-> round2(totalRevenue),
            totalRecognized |-> round2(totalBilled),
            totalRemaining |-> round2(totalUnbilled),
            percentRecognized |-> PercentRecognized(totalBilled, totalRevenue),
            contracts |-> shaped ]

(***************************************************************************)
(* shapeCustomers                                                          *)
(***************************************************************************)
\* Number(c.snake ?? c.camel ?? 0)
NumberOf(x, snake, camel) ==
  ToNumber(Coalesce(Get(x, snake), Coalesce(Get(x, camel), Num(0))))

\* The callback of customers.map, lines 320-348.
ShapeCustomer(c) ==
  [ id |-> Get(c, "id"),
    name |-> Get(c, "name"),
    companyName |-> Coalesce(Get(c, "company_name"), Get(c, "companyName")),
    email |-> Get(c, "email"),
    phone |-> Coalesce(Get(c, "phone_number"), Get(c, "phoneNumber")),
    currency |-> Get(c, "currency"),
    activeContracts |-> NumberOf(c, "active_contracts", "activeContracts"),
    completedContracts |-> NumberOf(c, "completed_contracts", "completedContracts"),
    totalContracts |-> NumberOf(c, "total_contracts", "totalContracts"),
    totalRevenue |-> NumberOf(c, "total_revenue", "totalRevenue"),
    totalMrr |-> NumberOf(c, "total_mrr", "totalMrr"),
    totalBilled |-> NumberOf(c, "total_billed", "totalBilled"),
    totalUnbilled |-> NumberOf(c, "total_unbilled", "totalUnbilled"),
    totalPaid |-> NumberOf(c, "total_paid", "totalPaid"),
    totalOutstanding |-> NumberOf(c, "total_outstanding", "totalOutstanding"),
    totalDeferredRevenue |-> NumberOf(c, "total_deferred_revenue", "totalDeferredRevenue"),
    paymentTerms |-> Coalesce(Get(c, "payment_term_name_display"),
                              Get(c, "paymentTermNameDisplay")),
    status |-> Get(c, "status") ]

shapeCustomers(customers) ==
  IF ~Mappable(customers) THEN Throw
  ELSE LET shaped == [i \in 1..Len(customers.kids) |-> ShapeCustomer(customers.kids[i])]
       IN [ totalCustomers |-> Length(customers.kids),
            totalRevenue |->
              round2(SumNumbers([i \in 1..Len(shaped) |-> shaped[i].totalRevenue])),
            totalMrr |-> round2(SumNumbers([i \in 1..Len(shaped) |-> shaped[i].totalMrr])),
            totalOutstanding |->
              round2(SumNumbers([i \in 1..Len(shaped) |-> shaped[i].totalOutstanding])),
            customers |-> shaped ]

(***************************************************************************)
(* shapeInvoices                                                           *)
(***************************************************************************)
\* The callback of invoices.map, lines 376-409, without its updates of the
\* totals.
ShapeInvoice(inv) ==
  [ id |-> Get(inv, "id"),
    invoiceNumber |-> Coalesce(Get(inv, "invoiceNumber"), Get(inv, "invoice_number")),
    clientName |-> Coalesce(Get(inv, "clientName"), Get(inv, "client_name")),
    contractName |-> Coalesce(Get(inv, "contractName"), Get(inv, "contract_name")),
    entityName |-> Coalesce(Get(inv, "entityName"), Get(inv, "entity_name")),
    status |-> Coalesce(Get(inv, "status"), Str("unknown")),
    invoiceDate |-> Coalesce(Get(inv, "invoiceDate"), Get(inv, "invoice_date")),
    dueDate |-> Coalesce(Get(inv, "dueDate"), Get(inv, "due_date")),
    paidDate |-> Coalesce(Get(inv, "paidDate"), Get(inv, "paid_date")),
    totalAmount |-> NumberOf(inv, "totalAmount", "total_amount"),
    amountPaid |-> NumberOf(inv, "amountPaid", "amount_paid"),
    amountDue |-> NumberOf(inv, "amountDue", "amount_due"),
    pastDueDays |-> NumberOf(inv, "pastDueDays", "past_due_days"),
    currency |-> Coalesce(Get(inv, "currency"),
                          Coalesce(Get(inv, "entityCurrency"), Get(inv, "entity_currency"))),
    paymentTerms |-> Coalesce(Get(inv, "paymentTermName"), Get(inv, "payment_term_name")) ]

\* byStatus after the elements of `shaped`, lines 384-390, before rounding.
RECURSIVE InvoiceGroups(_)
InvoiceGroups(shaped) ==
  IF shaped = <<>> THEN EmptyRecord
  ELSE LET inv == shaped[Len(shaped)] IN
       LET groups == InvoiceGroups(SubSeq(shaped, 1, Len(shaped) - 1))
           k == PropertyKey(inv.status)
           b == EntryOr(groups, k, [count |-> Num(0), totalAmount |-> Num(0), totalDue |-> Num(0)])
       IN Put(groups, k,
              [count |-> NumAdd(b.count, Num(Unit)),
               totalAmount |-> NumAdd(b.totalAmount, inv.totalAmount),
               totalDue |-> NumAdd(b.totalDue, inv.amountDue)])

\* for (const b of Object.values(byStatus)) { round totalAmount, totalDue }
RoundStatusTotals(groups) ==
  Obj(groups.keys,
      [i \in 1..Len(groups.keys) |->
         [groups.vals[i] EXCEPT !.totalAmount = round2(groups.vals[i].totalAmount),
                                !.totalDue = round2(groups.vals[i].totalDue)]])

shapeInvoices(invoices) ==
  IF ~Mappable(invoices) THEN Throw
  ELSE LET shaped == [i \in 1..Len(invoices.kids) |-> ShapeInvoice(invoices.kids[i])]
       IN [ totalInvoices |-> Length(invoices.kids),
            totalAmount |->
              round2(SumNumbers([i \in 1..Len(shaped) |-> shaped[i].totalAmount])),
            totalPaid |->
              round2(SumNumbers([i \in 1..Len(shaped) |-> shaped[i].amountPaid])),
            totalDue |->
              round2(SumNumbers([i \in 1..Len(shaped) |-> shaped[i].amountDue])),
            byStatus |-> RoundStatusTotals(InvoiceGroups(shaped)),
            invoices |-> shaped ]

(***************************************************************************)
(* shapeTrialBalance                                                       *)
(***************************************************************************)
\* tb = data?.trialBalance ?? data?.trial_balance ?? data;  tb?.accounts ?? []
TrialBalanceAccounts(data) ==
  LET tb == Coalesce(OptGet(data, "trialBalance"),
                     Coalesce(OptGet(data, "trial_balance"), data))
  IN Coalesce(OptGet(tb, "accounts"), Arr(<<>>))

\* The callback of the accounts map, lines 449-473, without its updates of
\* the totals.
ShapeAccount(a) ==
  LET debits == ToNumber(Coalesce(OptGet(Get(a, "balances"), "debits"),
                                  Coalesce(Get(a, "debits"), Num(0))))
      credits == ToNumber(Coalesce(OptGet(Get(a, "balances"), "credits"),
                                   Coalesce(Get(a, "credits"), Num(0))))
  IN [ id |-> Get(a, "id"),
       name |-> Get(a, "name"),
       number |-> Get(a, "number"),
       accountType |-> Coalesce(Get(a, "accountType"),
                                Coalesce(Get(a, "account_type"), Str("Unknown"))),
       debits |-> debits,
       credits |-> credits,
       net |-> round2(NumSub(debits, credits)),
       department |-> Get(a, "department") ]

\* byAccountType after the elements of `shaped`, lines 455-461, before
\* rounding.
RECURSIVE AccountGroups(_)
AccountGroups(shaped) ==
  IF shaped = <<>> THEN EmptyRecord
  ELSE LET a == shaped[Len(shaped)] IN
       LET groups == AccountGroups(SubSeq(shaped, 1, Len(shaped) - 1))
           k == PropertyKey(a.accountType)
           b == EntryOr(groups, k, [count |-> Num(0), debits |-> Num(0), credits |-> Num(0)])
       IN Put(groups, k,
              [count |-> NumAdd(b.count, Num(Unit)),
               debits |-> NumAdd(b.debits, a.debits),
               credits |-> NumAdd(b.credits, a.credits)])

\* for (const b of Object.values(byAccountType)) { round debits, credits }
RoundDebitsCredits(groups) ==
  Obj(groups.keys,
      [i \in 1..Len(groups.keys) |->
         [groups.vals[i] EXCEPT !.debits = round2(groups.vals[i].debits),
                                !.credits = round2(groups.vals[i].credits)]])

shapeTrialBalance(data) ==
  LET accounts == TrialBalanceAccounts(data)
      list == IF accounts.t = "array" THEN accounts ELSE Arr(<<>>)
  IN IF ~Mappable(list) THEN Throw
     ELSE LET shaped == [i \in 1..Len(list.kids) |-> ShapeAccount(list.kids[i])]
          IN [ startDate |-> Coalesce(OptGet(data, "startDate"),
                                      Coalesce(OptGet(data, "start_date"), Null)),
               endDate |-> Coalesce(OptGet(data, "endDate"),
                                    Coalesce(OptGet(data, "end_date"), Null)),
               totalDebits |->
                 round2(SumNumbers([i \in 1..Len(shaped) |-> shaped[i].debits])),
               totalCredits |->
                 round2(SumNumbers([i \in 1..Len(shaped) |-> shaped[i].credits])),
               accountCount |-> Length(shaped),
               byAccountType |-> RoundDebitsCredits(AccountGroups(shaped)),
               accounts |-> shaped ]

(***************************************************************************)
(* shapeBudgets                                                            *)
(***************************************************************************)
\* Array.isArray(b.tags) ? b.tags.map((t) => t.name || t) : []
BudgetTags(b) ==
  LET tags == Get(b, "tags") IN
  IF tags.t # "array" THEN <<>>
  ELSE IF \E i \in 1..Len(tags.kids) : Nullish(tags.kids[i]) THEN Throw
  ELSE [i \in 1..Len(tags.kids) |-> Or(Get(tags.kids[i], "name"), tags.kids[i])]

\* The callback of budgets.map, lines 552-572.
ShapeBudget(b) ==
  [ id |-> Get(b, "id"),
    name |-> Get(b, "name"),
    description |-> Or(Get(b, "description"), Null),
    entityId |-> Coalesce(Get(b, "entity"), Null),
    entityName |-> Or(Get(b, "entity_name"), Null),
    departmentId |-> Coalesce(Get(b, "department"), Null),
    departmentName |-> Or(Get(b, "department_name"), Null),
    cadence |-> Or(Get(b, "cadence"), Str("unspecified")),
    startDate |-> Get(b, "start_date"),
    endDate |-> Or(Get(b, "end_date"), Null),
    periods |-> Coalesce(Get(b, "periods"), Null),
    breakdownType |-> Or(Get(b, "breakdown_type"), Null),
    currency |-> Or(Get(b, "currency"), Null),
    tags |-> BudgetTags(b) ]

\* byCadence[cadence] = (byCadence[cadence] || 0) + 1, over `shaped`.
RECURSIVE CadenceCounts(_)
CadenceCounts(shaped) ==
  IF shaped = <<>> THEN EmptyRecord
  ELSE
       LET groups == CadenceCounts(SubSeq(shaped, 1, Len(shaped) - 1))
           k == PropertyKey(shaped[Len(shaped)].cadence)
           n == EntryOr(groups, k, Num(0))
       IN Put(groups, k,
              NumAdd(n, Num(Unit)))

shapeBudgets(budgets) ==
  IF ~Mappable(budgets) THEN Throw
  ELSE LET shaped == [i \in 1..Len(budgets.kids) |-> ShapeBudget(budgets.kids[i])]
       IN IF \E i \in 1..Len(shaped) : shaped[i].tags = Throw THEN Throw
          ELSE [ totalBudgets |-> Length(budgets.kids),
                 byCadence |-> CadenceCounts(shaped),
                 budgets |-> shaped ]

(***************************************************************************)
(* shapeBudgetDetail                                                       *)
(***************************************************************************)
\* The lineage taken whole, as if it were never split.
WholeLineage(s) == s

\* s.split(">")[0]: the text before the first ">", all of s when there is
\* none.
FirstSegment(s) ==
  IF \E i \in 1..Len(s) : SubSeq(s, i, i) = ">"
  THEN SubSeq(s, 1, Min({i \in 1..Len(s) : SubSeq(s, i, i) = ">"}) - 1)
  ELSE s

\* s.trim(): the white space of the bounded inputs is the blank.
RECURSIVE trim(_)
trim(s) ==
  IF Len(s) = 0 THEN s
  ELSE IF SubSeq(s, 1, 1) = " " THEN trim(SubSeq(s, 2, Len(s)))
  ELSE IF SubSeq(s, Len(s), Len(s)) = " " THEN trim(SubSeq(s, 1, Len(s) - 1))
  ELSE s

\* The callback of allocations.map, lines 607-633, without its updates of
\* the totals; accountType and dept are the two group names of the element.
ShapeAllocation(a) ==
  LET lineage == Or(Get(a, "account_lineage"), Str("")) IN
  IF lineage.t # "string" THEN Throw
  ELSE [ id |-> Get(a, "id"),
         accountId |-> Get(a, "account"),
         accountName |-> Get(a, "account_name"),
         accountLineage |-> lineage,
         departmentId |-> Coalesce(Get(a, "department"), Null),
         departmentName |-> Or(Get(a, "department_name"), Null),
         period |-> Coalesce(Get(a, "period"), Null),
         amount |-> ToNumber(Coalesce(Get(a, "amount"), Num(0))) ]

\* lineage.split(">")[0]?.trim() || a.account_name || "Unknown"
AllocationAccountType(shapedAllocation) ==
  Or(Str(trim(FirstSegment(shapedAllocation.accountLineage.s))),
     Or(shapedAllocation.accountName, Str("Unknown")))

\* a.department_name || "Unassigned"
AllocationDept(shapedAllocation) ==
  Or(shapedAllocation.departmentName, Str("Unassigned"))

\* byAccountType (name = AllocationAccountType) or byDepartment (name =
\* AllocationDept) after the elements of `shaped`, before rounding.
RECURSIVE AllocationGroupsByType(_)
AllocationGroupsByType(shaped) ==
  IF shaped = <<>> THEN EmptyRecord
  ELSE LET a == shaped[Len(shaped)] IN
       LET groups == AllocationGroupsByType(SubSeq(shaped, 1, Len(shaped) - 1))
           k == PropertyKey(AllocationAccountType(a))
           g == EntryOr(groups, k, [count |-> Num(0), total |-> Num(0)])
       IN Put(groups, k,
              [count |-> NumAdd(g.count, Num(Unit)),
               total |-> NumAdd(g.total, a.amount)])

RECURSIVE AllocationGroupsByDept(_)
AllocationGroupsByDept(shaped) ==
  IF shaped = <<>> THEN EmptyRecord
  ELSE LET a == shaped[Len(shaped)] IN
       LET groups == AllocationGroupsByDept(SubSeq(shaped, 1, Len(shaped) - 1))
           k == PropertyKey(AllocationDept(a))
           g == EntryOr(groups, k, [count |-> Num(0), total |-> Num(0)])
       IN Put(groups, k,
              [count |-> NumAdd(g.count, Num(Unit)),
               total |-> NumAdd(g.total, a.amount)])

shapeBudgetDetail(budget, allocations) ==
  IF ~Mappable(allocations) THEN Throw
  ELSE LET shaped == [i \in 1..Len(allocations.kids) |->
                        ShapeAllocation(allocations.kids[i])]
       IN IF (\E i \in 1..Len(shaped) : shaped[i] = Throw) \/ Nullish(budget)
          THEN Throw
          ELSE [ id |-> Get(budget, "id"),
                 name |-> Get(budget, "name"),
                 description |-> Or(Get(budget, "description"), Null),
                 entityId |-> Coalesce(Get(budget, "entity"), Null),
                 entityName |-> Or(Get(budget, "entity_name"), Null),
                 departmentId |-> Coalesce(Get(budget, "department"), Null),
                 departmentName |-> Or(Get(budget, "department_name"), Null),
                 cadence |-> Or(Get(budget, "cadence"), Str("unspecified")),
                 startDate |-> Get(budget, "start_date"),
                 endDate |-> Or(Get(budget, "end_date"), Null),
                 periods |-> Coalesce(Get(budget, "periods"), Null),
                 breakdownType |-> Or(Get(budget, "breakdown_type"), Null),
                 currency |-> Or(Get(budget, "currency"), Null),
                 totalBudgeted |->
                   round2(SumNumbers([i \in 1..Len(shaped) |-> shaped[i].amount])),
                 allocationCount |-> Length(allocations.kids),
                 byAccountType |-> RoundTotals(AllocationGroupsByType(shaped)),
                 byDepartment |-> RoundTotals(AllocationGroupsByDept(shaped)),
                 allocations |-> shaped ]

(***************************************************************************)
(* Bounded inputs of the shapers.  Amounts carry a third decimal where     *)
(* rounding should act; a null element stands for a malformed row.         *)
(***************************************************************************)
\* The lists of at most MaxItems elements of S, as JavaScript arrays.
ListsOf(S) == { Arr(q) : q \in SeqsUpTo(S, MaxItems) }

TransactionItems ==
  { Obj(<<"id", "date", "description", "account_name", "account_type",
          "vendor_name", "department_name", "debit_amount", "credit_amount">>,
        <<Num(Unit), Str("2026-01-05"), Str("Rent"), Str("Cash"), Str("Asset"),
          Str("Acme"), Str("Ops"), Num(1005), Num(0)>>),
    Obj(<<"id", "transaction_date", "memo", "accountName", "accountType",
          "vendorName", "departmentName", "debit", "credit">>,
        <<Num(2 * Unit), Str("2026-01-06"), Str("Fee"), Str("Bank"), Str("Expense"),
          Str("Beta"), Str("Eng"), Num(2005), Str("3")>>),
    Obj(<<"debit_amount", "debit">>, <<Num(0), Num(5 * Unit)>>),
    Obj(<<"account_type", "credit_amount">>, <<Str("Asset"), Num(2004)>>),
    Obj(<<"debit">>, <<Str("n/a")>>),
    Null }

AgingItems ==
  { Obj(<<"vendor_name", "amount", "days_outstanding", "invoice_number", "due_date">>,
        <<Str("Acme"), Num(10006), Num(95 * Unit), Str("INV-1"), Str("2026-01-01")>>),
    Obj(<<"customer_name", "balance", "days", "reference">>,
        <<Str("Beta"), Num(2006), Num(90 * Unit), Str("R-2")>>),
    Obj(<<"name", "outstanding", "days">>, <<Str("Gamma"), Num(3 * Unit), Num(75 * Unit)>>),
    Obj(<<"amount", "aging_bucket", "days">>, <<Num(4 * Unit), Str("31-60"), Num(45 * Unit)>>),
    Obj(<<"amount", "bucket">>, <<Num(Unit), Str("90+")>>),
    Obj(<<"days_outstanding">>, <<Num(30 * Unit)>>),
    Obj(<<"amount", "balance", "days_outstanding", "days">>,
        <<Num(0), Num(5 * Unit), Num(0), Num(31 * Unit)>>),
    Obj(<<"days">>, <<Num(60 * Unit)>>),
    Obj(<<"aging_bucket", "age_bucket", "days">>, <<Str(""), Str("late"), Num(61 * Unit)>>),
    Obj(<<"days_outstanding">>, <<Str("91")>>),
    Obj(<<>>, <<>>),
    Null }
AgingTypes == { Undef, Str("ap"), Str("ar") }

ContractItems ==
  { Obj(<<"id", "name", "client_name", "status", "total_revenue", "total_billed",
          "total_unbilled", "start_date", "end_date">>,
        <<Num(Unit), Str("A"), Str("X"), Str("active"), Num(3 * Unit), Num(Unit),
          Num(2 * Unit), Str("2026-01-01"), Str("2026-12-31")>>),
    Obj(<<"contract_name", "clientName", "totalRevenue", "totalBilled", "startDate",
          "endDate">>,
        <<Str("B"), Str("Y"), Num(3 * Unit), Num(3 * Unit), Str("2026-02-01"),
          Str("2026-11-30")>>),
    Obj(<<"contract_value", "recognized_revenue">>, <<Num(1005), Num(2005)>>),
    Obj(<<"total_revenue", "total_billed">>, <<Num(0), Num(Unit)>>),
    Obj(<<"total_revenue">>, <<Str("n/a")>>),
    Obj(<<"total_revenue", "total_billed">>, <<Num(-3 * Unit), Num(Unit)>>),
    Obj(<<"total_revenue", "total_billed", "total_unbilled">>,
        <<Num(3 * Unit), Num(Unit), Num(0)>>),
    Obj(<<>>, <<>>),
    Null }

CustomerItems ==
  { Obj(<<"id", "name", "company_name", "email", "phone_number", "currency",
          "active_contracts", "completed_contracts", "total_contracts",
          "total_revenue", "total_mrr", "total_billed", "total_unbilled",
          "total_paid", "total_outstanding", "total_deferred_revenue",
          "payment_term_name_display", "status">>,
        <<Num(Unit), Str("Ann"), Str("Acme"), Str("a@x.io"), Str("555"), Str("USD"),
          Num(Unit), Num(2 * Unit), Num(3 * Unit),
          Num(10005), Num(Unit), Num(5 * Unit), Num(4 * Unit),
          Num(3 * Unit), Num(2005), Num(Unit),
          Str("Net 30"), Str("active")>>),
    Obj(<<"id", "name", "companyName", "phoneNumber", "activeContracts",
          "totalRevenue", "totalMrr", "totalOutstanding", "paymentTermNameDisplay">>,
        <<Num(2 * Unit), Str("Bob"), Str("Beta"), Str("556"), Num(Unit),
          Num(2005), Num(2 * Unit), Num(0), Str("Net 15")>>),
    Obj(<<"total_revenue", "totalRevenue">>, <<Num(0), Num(5 * Unit)>>),
    Obj(<<"total_revenue", "totalRevenue">>, <<Null, Num(5 * Unit)>>),
    Obj(<<"total_mrr">>, <<Str("n/a")>>),
    Obj(<<>>, <<>>),
    Null }

InvoiceItems ==
  { Obj(<<"id", "invoiceNumber", "clientName", "contractName", "entityName", "status",
          "invoiceDate", "dueDate", "paidDate", "totalAmount", "amountPaid",
          "amountDue", "pastDueDays", "currency", "paymentTermName">>,
        <<Num(Unit), Str("INV-1"), Str("Acme"), Str("A"), Str("HQ"), Str("paid"),
          Str("2026-01-01"), Str("2026-01-31"), Str("2026-01-20"), Num(10005),
          Num(10005), Num(0), Num(0), Str("USD"), Str("Net 30")>>),
    Obj(<<"id", "invoice_number", "client_name", "status", "invoice_date", "due_date",
          "total_amount", "amount_paid", "amount_due", "past_due_days",
          "entity_currency", "payment_term_name">>,
        <<Num(2 * Unit), Str("INV-2"), Str("Beta"), Str("open"), Str("2026-02-01"),
          Str("2026-03-01"), Num(2005), Num(0), Num(2005), Num(7 * Unit),
          Str("EUR"), Str("Net 15")>>),
    Obj(<<"status", "totalAmount", "total_amount">>, <<Str("open"), Num(0), Num(5 * Unit)>>),
    Obj(<<"status", "amountDue">>, <<Null, Str("n/a")>>),
    Obj(<<>>, <<>>),
    Null }

AccountItems ==
  { Obj(<<"id", "name", "number", "accountType", "balances", "department">>,
        <<Num(Unit), Str("Cash"), Str("1000"), Str("Asset"),
          Obj(<<"debits", "credits">>, <<Num(1005), Num(0)>>), Str("Ops")>>),
    Obj(<<"id", "name", "account_type", "debits", "credits">>,
        <<Num(2 * Unit), Str("Loan"), Str("Liability"), Num(2 * Unit), Num(3005)>>),
    Obj(<<"balances", "debits">>, <<Obj(<<"debits">>, <<Num(0)>>), Num(5 * Unit)>>),
    Obj(<<"accountType", "credits">>, <<Str("Asset"), Str("n/a")>>),
    Obj(<<>>, <<>>),
    Null }

\* Responses of the trial-balance endpoint: absent, wrapped under either
\* spelling with its dates, bare, and with a malformed account list.
TrialBalanceInputs ==
  { Null, Undef, Obj(<<>>, <<>>), Obj(<<"accounts">>, <<Str("n/a")>>) }
    \cup { Obj(<<"accounts">>, <<list>>) : list \in ListsOf(AccountItems) }
    \cup { Obj(<<"startDate", "endDate", "trialBalance">>,
               <<Str("2026-01-01"), Str("2026-01-31"), Obj(<<"accounts">>, <<list>>)>>) :
             list \in ListsOf(AccountItems) }
    \cup { Obj(<<"start_date", "end_date", "trial_balance">>,
               <<Str("2026-02-01"), Str("2026-02-28"), Obj(<<"accounts">>, <<list>>)>>) :
             list \in ListsOf(AccountItems) }

BudgetItems ==
  { Obj(<<"id", "name", "description", "entity", "entity_name", "department",
          "department_name", "cadence", "start_date", "end_date", "periods",
          "breakdown_type", "currency", "tags">>,
        <<Num(Unit), Str("Ops"), Str("Run"), Num(0), Str("HQ"), Num(2 * Unit),
          Str("Eng"), Str("monthly"), Str("2026-01-01"), Str("2026-12-31"),
          Num(12 * Unit), Str("account"), Str("USD"),
          Arr(<<Obj(<<"name">>, <<Str("core")>>), Str("fy26")>>)>>),
    Obj(<<"id", "name", "cadence", "start_date">>,
        <<Num(2 * Unit), Str("Lab"), Str("quarterly"), Str("2026-04-01")>>),
    Obj(<<"id", "name", "cadence", "periods">>,
        <<Num(3 * Unit), Str("Misc"), Str(""), Num(0)>>),
    Obj(<<"tags">>, <<Arr(<<Null>>)>>),
    Null }

\* The budget whose detail is shaped: an object read from the API.
BudgetInputs == { b \in BudgetItems : b.t = "object" }

AllocationItems ==
  { Obj(<<"id", "account", "account_name", "account_lineage", "department",
          "department_name", "period", "amount">>,
        <<Num(Unit), Num(5 * Unit), Str("Cash"), Str("Assets > Current Assets > Cash"),
          Num(Unit), Str("Eng"), Num(Unit), Num(1005)>>),
    Obj(<<"id", "account_name", "amount">>, <<Num(2 * Unit), Str("Rent"), Num(2005)>>),
    Obj(<<"account_lineage", "account_name", "amount">>,
        <<Str(" > Other"), Str("Misc"), Str("3")>>),
    Obj(<<"account_lineage", "department_name">>, <<Str("Assets"), Str("Eng")>>),
    Obj(<<"account_name", "account_lineage", "amount">>,
        <<Str("Salaries"), Str("Expenses > Payroll > Salaries"), Num(1006)>>),
    Obj(<<"account_name", "account_lineage", "amount">>,
        <<Str("Misc"), Str("Expenses >Misc"), Num(2006)>>),
    Obj(<<"account_lineage">>, <<Num(5 * Unit)>>),
    Obj(<<>>, <<>>),
    Null }

(***************************************************************************)
(* Specification of the shapers: one call of one shaper                    *)
(***************************************************************************)
InitShapers ==
  /\ pc = "call"
  /\ call \in
       [fn : {"enrichTransactions"}, transactions : ListsOf(TransactionItems)]
         \cup [fn : {"analyzeAging"}, agingData : ListsOf(AgingItems),
               agingType : AgingTypes]
         \cup [fn : {"analyzeContracts"}, contracts : ListsOf(ContractItems)]
         \cup [fn : {"shapeCustomers"}, customers : ListsOf(CustomerItems)]
         \cup [fn : {"shapeInvoices"}, invoices : ListsOf(InvoiceItems)]
         \cup [fn : {"shapeTrialBalance"}, data : TrialBalanceInputs]
         \cup [fn : {"shapeBudgets"}, budgets : ListsOf(BudgetItems)]
         \cup [fn : {"shapeBudgetDetail"}, budget : BudgetInputs,
               allocations : ListsOf(AllocationItems)]
  /\ ret = Undef
  /\ promises = <<>>

EnrichTransactionsCall ==
  /\ pc = "call"
  /\ call.fn = "enrichTransactions"
  /\ ret' = enrichTransactions(call.transactions)
  /\ pc' = "done"
  /\ UNCHANGED <<call, promises>>

AnalyzeAgingCall ==
  /\ pc = "call"
  /\ call.fn = "analyzeAging"
  /\ ret' = analyzeAging(call.agingData, call.agingType)
  /\ pc' = "done"
  /\ UNCHANGED <<call, promises>>

AnalyzeContractsCall ==
  /\ pc = "call"
  /\ call.fn = "analyzeContracts"
  /\ ret' = analyzeContracts(call.contracts)
  /\ pc' = "done"
  /\ UNCHANGED <<call, promises>>

ShapeCustomersCall ==
  /\ pc = "call"
  /\ call.fn = "shapeCustomers"
  /\ ret' = shapeCustomers(call.customers)
  /\ pc' = "done"
  /\ UNCHANGED <<call, promises>>

ShapeInvoicesCall ==
  /\ pc = "call"
  /\ call.fn = "shapeInvoices"
  /\ ret' = shapeInvoices(call.invoices)
  /\ pc' = "done"
  /\ UNCHANGED <<call, promises>>

ShapeTrialBalanceCall ==
  /\ pc = "call"
  /\ call.fn = "shapeTrialBalance"
  /\ ret' = shapeTrialBalance(call.data)
  /\ pc' = "done"
  /\ UNCHANGED <<call, promises>>

ShapeBudgetsCall ==
  /\ pc = "call"
  /\ call.fn = "shapeBudgets"
  /\ ret' = shapeBudgets(call.budgets)
  /\ pc' = "done"
  /\ UNCHANGED <<call, promises>>

ShapeBudgetDetailCall ==
  /\ pc = "call"
  /\ call.fn = "shapeBudgetDetail"
  /\ ret' = shapeBudgetDetail(call.budget, call.allocations)
  /\ pc' = "done"
  /\ UNCHANGED <<call, promises>>

NextShapers ==
  \/ EnrichTransactionsCall
  \/ AnalyzeAgingCall
  \/ AnalyzeContractsCall
  \/ ShapeCustomersCall
  \/ ShapeInvoicesCall
  \/ ShapeTrialBalanceCall
  \/ ShapeBudgetsCall
  \/ ShapeBudgetDetailCall

SpecShapers == InitShapers /\ [][NextShapers]_vars

(***************************************************************************)
(* Properties of the shapers on empty input                                *)
(***************************************************************************)
ShaperReturned(fn) == pc = "done" /\ call.fn = fn

EmptyList == Arr(<<>>)

\* A grouping with no group.
NoGroups(g) == g.t = "object" /\ Len(g.keys) = 0

\* A trial-balance response that is absent or whose account list, bare or
\* wrapped, is empty.
EmptyTrialBalance(data) ==
  \/ Nullish(data)
  \/ Get(data, "accounts") = EmptyList
  \/ Get(Get(data, "trialBalance"), "accounts") = EmptyList
  \/ Get(Get(data, "trial_balance"), "accounts") = EmptyList

\* C10: on an empty input list (for shapeBudgetDetail an empty allocation
\* list, for shapeTrialBalance null or an empty account list) every shaper
\* returns, without raising, count 0, every total 0 (the portfolio
\* percentRecognized of analyzeContracts null), every grouping empty and an
\* empty item list.
C10_TotalOnEmptyInput ==
  /\ (ShaperReturned("enrichTransactions") /\ call.transactions = EmptyList) =>
       /\ ret # Throw
       /\ ret.totalTransactions = Num(0)
       /\ ret.totalDebits = Num(0) /\ ret.totalCredits = Num(0)
       /\ NoGroups(ret.byAccountType)
       /\ ret.transactions = <<>>
  /\ (ShaperReturned("analyzeAging") /\ call.agingData = EmptyList) =>
       /\ ret # Throw
       /\ ret.totalOutstanding = Num(0)
       /\ NoGroups(ret.buckets)
       /\ ret.criticalItems = <<>> /\ ret.items = <<>>
  /\ (ShaperReturned("analyzeContracts") /\ call.contracts = EmptyList) =>
       /\ ret # Throw
       /\ ret.totalContracts = Num(0)
       /\ ret.totalRevenue = Num(0) /\ ret.totalRecognized = Num(0)
       /\ ret.totalRemaining = Num(0)
       /\ ret.percentRecognized = Null
       /\ ret.contracts = <<>>
  /\ (ShaperReturned("shapeCustomers") /\ call.customers = EmptyList) =>
       /\ ret # Throw
       /\ ret.totalCustomers = Num(0)
       /\ ret.totalRevenue = Num(0) /\ ret.totalMrr = Num(0)
       /\ ret.totalOutstanding = Num(0)
       /\ ret.customers = <<>>
  /\ (ShaperReturned("shapeInvoices") /\ call.invoices = EmptyList) =>
       /\ ret # Throw
       /\ ret.totalInvoices = Num(0)
       /\ ret.totalAmount = Num(0) /\ ret.totalPaid = Num(0) /\ ret.totalDue = Num(0)
       /\ NoGroups(ret.byStatus)
       /\ ret.invoices = <<>>
  /\ (ShaperReturned("shapeBudgets") /\ call.budgets = EmptyList) =>
       /\ ret # Throw
       /\ ret.totalBudgets = Num(0)
       /\ NoGroups(ret.byCadence)
       /\ ret.budgets = <<>>
  /\ (ShaperReturned("shapeBudgetDetail") /\ call.allocations = EmptyList) =>
       /\ ret # Throw
       /\ ret.totalBudgeted = Num(0)
       /\ ret.allocationCount = Num(0)
       /\ NoGroups(ret.byAccountType) /\ NoGroups(ret.byDepartment)
       /\ ret.allocations = <<>>
  /\ (ShaperReturned("shapeTrialBalance") /\ EmptyTrialBalance(call.data)) =>
       /\ ret # Throw
       /\ ret.totalDebits = Num(0) /\ ret.totalCredits = Num(0)
       /\ ret.accountCount = Num(0)
       /\ NoGroups(ret.byAccountType)
       /\ ret.accounts = <<>>

\* analyzeContracts([]) has returned: no contract, no percentage.
C10_Witness ==
  /\ ShaperReturned("analyzeContracts")
  /\ call.contracts = EmptyList
  /\ ret.totalContracts = Num(0)
  /\ ret.percentRecognized = Null

\* shapeTrialBalance(null) has returned.
C10_WitnessNullTrialBalance ==
  /\ ShaperReturned("shapeTrialBalance")
  /\ call.data = Null
  /\ ret.accountCount = Num(0)

\* shapeBudgetDetail(budget, []) has returned the header of its budget.
C10_WitnessBudgetDetail ==
  /\ ShaperReturned("shapeBudgetDetail")
  /\ call.allocations = EmptyList
  /\ ret.name = Str("Ops")
  /\ ret.allocationCount = Num(0)

\* The shapers also return on non-empty lists: two transactions of one
\* account type, grouped and totalled.
ShapersWitnessGrouped ==
  /\ ShaperReturned("enrichTransactions")
  /\ ret # Throw
  /\ ret.totalTransactions = Num(2 * Unit)
  /\ ret.byAccountType.keys = <<"Asset">>
  /\ ret.byAccountType.vals[1].count = Num(2 * Unit)

(***************************************************************************)
(* Properties of enrichTransactions                                        *)
(***************************************************************************)
\* The sum, in thousandths, of a list of finite numbers.
RECURSIVE SumThousandths(_)
SumThousandths(xs) ==
  IF xs = <<>> THEN 0 ELSE xs[1].n + SumThousandths(SubSeq(xs, 2, Len(xs)))

AllFinite(xs) == \A i \in 1..Len(xs) : xs[i].t = "number"

\* x is the sum of the numbers xs rounded to 2 decimals; NaN when one of
\* them is NaN.
RoundedSum(x, xs) ==
  IF AllFinite(xs) THEN NearestHundredth(x, SumThousandths(xs), Unit) ELSE x = NaN

ItemDebits == [i \in 1..Len(ret.transactions) |-> ret.transactions[i].debit]
ItemCredits == [i \in 1..Len(ret.transactions) |-> ret.transactions[i].credit]

\* C11: totalDebits and totalCredits are the sums of the shaped items' debit
\* and credit fields rounded to 2 decimals, and totalTransactions is the
\* number of shaped items.
C11_TotalsMatchItems ==
  (ShaperReturned("enrichTransactions") /\ ret # Throw) =>
    /\ ret.totalTransactions = Num(Len(ret.transactions) * Unit)
    /\ RoundedSum(ret.totalDebits, ItemDebits)
    /\ RoundedSum(ret.totalCredits, ItemCredits)

\* Debits 1.005 and 2.005 total 3.01; credits 0 and "3" total 3.
C11_Witness ==
  /\ ShaperReturned("enrichTransactions")
  /\ ret # Throw
  /\ ItemDebits = <<Num(1005), Num(2005)>>
  /\ ret.totalDebits = Num(3010)
  /\ ret.totalCredits = Num(3 * Unit)
  /\ ret.totalTransactions = Num(2 * Unit)

(***************************************************************************)
(* Properties of analyzeAging                                              *)
(***************************************************************************)
AgingReturned == ShaperReturned("analyzeAging") /\ ret # Throw

ItemAmounts == [i \in 1..Len(ret.items) |-> ret.items[i].amount]
BucketTotals == [i \in 1..Len(ret.buckets.keys) |-> ret.buckets.vals[i].total]

\* Every amount is a whole number of hundredths.
WholeCents(xs) == \A i \in 1..Len(xs) : xs[i].n % (Unit \div 100) = 0

\* C12: the returned bucket totals add up to the returned totalOutstanding,
\* whatever the number of decimals of the amounts.
C12_BucketTotalsSumToTotal ==
  (AgingReturned /\ AllFinite(ItemAmounts)) =>
    /\ AllFinite(BucketTotals)
    /\ SumThousandths(BucketTotals) = ret.totalOutstanding.n

\* The returned bucket totals add up to the returned totalOutstanding when
\* every amount has at most 2 decimals; with more decimals each bucket and
\* the grand total are rounded on their own, and the two sides differ by at
\* most half a hundredth per rounding.
C12_WholeCentsSumToTotal ==
  (AgingReturned /\ AllFinite(ItemAmounts)) =>
    /\ AllFinite(BucketTotals)
    /\ RoundedSum(ret.totalOutstanding, ItemAmounts)
    /\ WholeCents(ItemAmounts) =>
         SumThousandths(BucketTotals) = ret.totalOutstanding.n
    /\ 2 * Abs(SumThousandths(BucketTotals) - ret.totalOutstanding.n)
         <= (Len(BucketTotals) + 1) * (Unit \div 100)

\* Amounts 3 and 4 in two buckets: totals 3 and 4, outstanding 7.
C12_Witness ==
  /\ AgingReturned
  /\ ItemAmounts = <<Num(3 * Unit), Num(4 * Unit)>>
  /\ ret.buckets.keys = <<"61-90", "31-60">>
  /\ BucketTotals = <<Num(3 * Unit), Num(4 * Unit)>>
  /\ ret.totalOutstanding = Num(7 * Unit)

\* Amounts 10.006 and 2.006 in two buckets: totals 10.01 and 2.01, but
\* outstanding 12.01.
C12_WitnessThirdDecimal ==
  /\ AgingReturned
  /\ ItemAmounts = <<Num(10006), Num(2006)>>
  /\ BucketTotals = <<Num(10010), Num(2010)>>
  /\ ret.totalOutstanding = Num(12010)

\* The critical entry that stands for a shaped item.
EntryOf(item) ==
  [name |-> item.name, amount |-> item.amount, days |-> item.days, bucket |-> item.bucket]

\* xs is ys with some elements left out, the order kept.
RECURSIVE IsSubsequence(_, _)
IsSubsequence(xs, ys) ==
  IF xs = <<>> THEN TRUE
  ELSE IF ys = <<>> THEN FALSE
  ELSE IF xs[1] = ys[1]
       THEN IsSubsequence(SubSeq(xs, 2, Len(xs)), SubSeq(ys, 2, Len(ys)))
            \/ IsSubsequence(xs, SubSeq(ys, 2, Len(ys)))
       ELSE IsSubsequence(xs, SubSeq(ys, 2, Len(ys)))

NinetyDays(entry) == entry.days.t = "number" /\ entry.days.n >= 90 * Unit

\* C13: criticalItems holds, in input order, every item of 90 days or more,
\* and each of its entries has 90 days or more or is in the "90+" bucket.
C13_CriticalIsNinetyPlus ==
  AgingReturned =>
    /\ IsSubsequence(ret.criticalItems, [i \in 1..Len(ret.items) |-> EntryOf(ret.items[i])])
    /\ \A i \in 1..Len(ret.items) :
         NinetyDays(ret.items[i]) =>
           \E j \in 1..Len(ret.criticalItems) : ret.criticalItems[j] = EntryOf(ret.items[i])
    /\ \A j \in 1..Len(ret.criticalItems) :
         NinetyDays(ret.criticalItems[j]) \/ ret.criticalItems[j].bucket = Str("90+")

\* What the code reports: the items of 90 days or more and those whose
\* bucket name contains "90", which includes the derived bucket "61-90".
C13_CriticalIsNameContainsNinety ==
  AgingReturned =>
    /\ IsSubsequence(ret.criticalItems, [i \in 1..Len(ret.items) |-> EntryOf(ret.items[i])])
    /\ \A i \in 1..Len(ret.items) :
         (NinetyDays(ret.items[i]) \/ includes(ret.items[i].bucket.s, "90")) <=>
           \E j \in 1..Len(ret.criticalItems) : ret.criticalItems[j] = EntryOf(ret.items[i])

\* A 75-day item, derived bucket "61-90", reported as critical.
C13_WitnessSixtyOneToNinety ==
  /\ AgingReturned
  /\ Len(ret.criticalItems) = 1
  /\ ret.criticalItems[1].days = Num(75 * Unit)
  /\ ret.criticalItems[1].bucket = Str("61-90")

BucketKeys == <<"aging_bucket", "bucket", "age_bucket">>
DaysKeys == <<"days_outstanding", "days">>

\* The days a bucket is derived from: the first given (nonzero) of
\* days_outstanding and days, else 0.
DaysGiven(raw) ==
  LET d == FirstTruthy(raw, DaysKeys) IN IF d = Undef THEN Num(0) ELSE ToNumber(d)

\* The bucket of the fixed thresholds for a number of days (in thousandths).
ThresholdBucket(n) ==
  CASE n <= 30 * Unit -> "0-30"
    [] 30 * Unit < n /\ n <= 60 * Unit -> "31-60"
    [] 60 * Unit < n /\ n <= 90 * Unit -> "61-90"
    [] n > 90 * Unit -> "90+"

C14_WitnessExplicit ==
  /\ AgingReturned
  /\ Len(ret.items) = 2
  /\ ret.items[1].days = Num(61 * Unit) /\ ret.items[1].bucket = Str("late")
  /\ ret.items[2].days = Num(91 * Unit) /\ ret.items[2].bucket = Str("90+")

(***************************************************************************)
(* Properties of analyzeContracts                                          *)
(***************************************************************************)
ContractsReturned == ShaperReturned("analyzeContracts") /\ ret # Throw

ContractRevenues == [i \in 1..Len(ret.contracts) |-> ret.contracts[i].totalRevenue]
ContractRecognized == [i \in 1..Len(ret.contracts) |-> ret.contracts[i].recognized]

\* x is part / whole * 100 rounded to 2 decimals (NaN when part is NaN), for
\* a finite whole other than 0.
PercentOf(x, part, whole) ==
  IF part.t = "number" THEN NearestHundredth(x, 100 * part.n, whole.n) ELSE x = NaN

\* Each contract's percentage: round(recognized / revenue * 100) when its
\* revenue is above 0, and 0 otherwise.
PerContractPercent ==
  \A i \in 1..Len(ret.contracts) :
    LET c == ret.contracts[i] IN
    IF c.totalRevenue.t = "number" /\ c.totalRevenue.n > 0
    THEN PercentOf(c.percentRecognized, c.recognized, c.totalRevenue)
    ELSE c.percentRecognized = Num(0)

\* The aggregate sums of the portfolio: NaN when a contract's figure is NaN.
AggregateOf(xs) == IF AllFinite(xs) THEN Num(SumThousandths(xs)) ELSE NaN

\* C15: per contract, round(recognized / revenue * 100) when revenue > 0,
\* else 0; for the portfolio the same formula over the aggregate sums, null
\* exactly when the aggregate revenue is 0.
C15_PortfolioNullAtZero ==
  ContractsReturned =>
    /\ PerContractPercent
    /\ LET revenue == AggregateOf(ContractRevenues)
           recognized == AggregateOf(ContractRecognized)
       IN IF revenue = Num(0) THEN ret.percentRecognized = Null
          ELSE /\ ret.percentRecognized # Null
               /\ revenue.t = "number" =>
                    PercentOf(ret.percentRecognized, recognized, revenue)

\* The portfolio percentage is null exactly when the aggregate revenue is
\* not above 0: zero, negative, or not a number.
C15_PortfolioNullUnlessPositive ==
  ContractsReturned =>
    /\ PerContractPercent
    /\ LET revenue == AggregateOf(ContractRevenues)
           recognized == AggregateOf(ContractRecognized)
       IN IF revenue.t = "number" /\ revenue.n > 0
          THEN PercentOf(ret.percentRecognized, recognized, revenue)
          ELSE ret.percentRecognized = Null

\* Revenues 3 and 3 with 1 and 3 recognized: 33.33% and 100% per contract,
\* 66.67% for the portfolio.
C15_Witness ==
  /\ ContractsReturned
  /\ Len(ret.contracts) = 2
  /\ ret.contracts[1].percentRecognized = Num(33330)
  /\ ret.contracts[2].percentRecognized = Num(100 * Unit)
  /\ ret.percentRecognized = Num(66670)

\* A single contract of revenue -3: 0 for the contract, null for the
\* portfolio although the aggregate revenue is not 0.
C15_WitnessNegative ==
  /\ ContractsReturned
  /\ ContractRevenues = <<Num(-3 * Unit)>>
  /\ ret.contracts[1].percentRecognized = Num(0)
  /\ ret.percentRecognized = Null

(***************************************************************************)
(* Properties of shapeInvoices                                             *)
(***************************************************************************)
InvoicesReturned == ShaperReturned("shapeInvoices") /\ ret # Throw

\* The shaped item does not show field k: it has no such key, or the key
\* holds undefined (which serialization drops).
Omitted(item, k) == k \notin DOMAIN item \/ item[k] = Undef

\* Field k of the shaped item is omitted when the amount is 0 and holds the
\* amount otherwise.
OmittedWhenZero(item, k, amount) ==
  IF amount = Num(0) THEN Omitted(item, k)
  ELSE k \in DOMAIN item /\ item[k] = amount

RemovedInvoiceFields == {"contractName", "entityName", "paidDate", "currency", "paymentTerms"}

\* C16: a shaped invoice omits amountPaid and pastDueDays when they are 0 or
\* missing and shows them otherwise, never shows contractName, entityName,
\* paidDate, currency or paymentTerms, and totalPaid still counts every
\* invoice.
C16_CompactShape ==
  InvoicesReturned =>
    /\ \A i \in 1..Len(ret.invoices) :
         LET raw == call.invoices.kids[i]
             item == ret.invoices[i]
         IN /\ OmittedWhenZero(item, "amountPaid", NumberOf(raw, "amountPaid", "amount_paid"))
            /\ OmittedWhenZero(item, "pastDueDays",
                               NumberOf(raw, "pastDueDays", "past_due_days"))
            /\ \A k \in RemovedInvoiceFields : Omitted(item, k)
    /\ RoundedSum(ret.totalPaid,
                  [i \in 1..Len(ret.invoices) |->
                     NumberOf(call.invoices.kids[i], "amountPaid", "amount_paid")])

\* What the code returns: every shaped invoice carries amountPaid and
\* pastDueDays as numbers, 0 included, and the five descriptive fields as
\* read from the raw invoice.
C16_FullShape ==
  InvoicesReturned =>
    \A i \in 1..Len(ret.invoices) :
      LET raw == call.invoices.kids[i]
          item == ret.invoices[i]
      IN /\ item.amountPaid = NumberOf(raw, "amountPaid", "amount_paid")
         /\ item.pastDueDays = NumberOf(raw, "pastDueDays", "past_due_days")
         /\ item.contractName = Coalesce(Get(raw, "contractName"), Get(raw, "contract_name"))
         /\ item.entityName = Coalesce(Get(raw, "entityName"), Get(raw, "entity_name"))

\* An unpaid invoice shaped with amountPaid 0 and its currency.
C16_WitnessZeroEmitted ==
  /\ InvoicesReturned
  /\ Len(ret.invoices) = 1
  /\ ret.invoices[1].invoiceNumber = Str("INV-2")
  /\ ret.invoices[1].amountPaid = Num(0)
  /\ ret.invoices[1].currency = Str("EUR")

(***************************************************************************)
(* Field resolution in the shapers                                         *)
(***************************************************************************)
\* The first member of keys that the raw record gives a value (one that is
\* neither undefined nor null), undefined when it gives none.
FirstGiven(raw, keys) ==
  LET has == { i \in 1..Len(keys) : ~Nullish(Get(raw, keys[i])) } IN
  IF has = {} THEN Undef ELSE Get(raw, keys[Min(has)])

\* Number() of the first given key, 0 when none is given.
ResolvedNumber(raw, keys) ==
  LET v == FirstGiven(raw, keys) IN IF v = Undef THEN Num(0) ELSE ToNumber(v)

\* Number() of the first key with a truthy value, 0 when there is none.
TruthyNumber(raw, keys) ==
  LET v == FirstTruthy(raw, keys) IN IF v = Undef THEN Num(0) ELSE ToNumber(v)

DebitKeys == <<"debit_amount", "debit">>
CreditKeys == <<"credit_amount", "credit">>
AmountKeys == <<"amount", "balance", "outstanding">>
RevenueKeys == <<"total_revenue", "totalRevenue", "contract_value">>
BilledKeys == <<"total_billed", "totalBilled", "recognized_revenue">>
UnbilledKeys == <<"total_unbilled", "totalUnbilled">>

\* C17: in every shaper a numeric field is Number() of the first key that
\* is present, 0 only when none is: a 0 under an earlier key wins over a
\* nonzero value under a later key.
C17_FirstPresentWins ==
  /\ (ShaperReturned("enrichTransactions") /\ ret # Throw) =>
       \A i \in 1..Len(ret.transactions) :
         LET raw == call.transactions.kids[i] IN
         /\ ret.transactions[i].debit = ResolvedNumber(raw, DebitKeys)
         /\ ret.transactions[i].credit = ResolvedNumber(raw, CreditKeys)
  /\ AgingReturned =>
       \A i \in 1..Len(ret.items) :
         /\ ret.items[i].amount = ResolvedNumber(call.agingData.kids[i], AmountKeys)
         /\ ret.items[i].days = ResolvedNumber(call.agingData.kids[i], DaysKeys)
  /\ ContractsReturned =>
       \A i \in 1..Len(ret.contracts) :
         LET raw == call.contracts.kids[i]
             c == ret.contracts[i]
         IN /\ c.totalRevenue = ResolvedNumber(raw, RevenueKeys)
            /\ c.recognized = ResolvedNumber(raw, BilledKeys)
            /\ c.remaining = IF FirstGiven(raw, UnbilledKeys) = Undef
                             THEN NumSub(c.totalRevenue, c.recognized)
                             ELSE ToNumber(FirstGiven(raw, UnbilledKeys))
  /\ (ShaperReturned("shapeCustomers") /\ ret # Throw) =>
       \A i \in 1..Len(ret.customers) :
         LET raw == call.customers.kids[i] IN
         /\ ret.customers[i].totalRevenue
              = ResolvedNumber(raw, <<"total_revenue", "totalRevenue">>)
         /\ ret.customers[i].totalMrr = ResolvedNumber(raw, <<"total_mrr", "totalMrr">>)
  /\ InvoicesReturned =>
       \A i \in 1..Len(ret.invoices) :
         LET raw == call.invoices.kids[i] IN
         /\ ret.invoices[i].totalAmount
              = ResolvedNumber(raw, <<"totalAmount", "total_amount">>)
         /\ ret.invoices[i].amountDue = ResolvedNumber(raw, <<"amountDue", "amount_due">>)

\* What the code does: transactions, aging items and contracts take the
\* first key with a truthy value, so a 0 (or "") under an earlier key is
\* passed over; customers and invoices take the first given key, 0 included.
C17_TruthyOrGiven ==
  /\ (ShaperReturned("enrichTransactions") /\ ret # Throw) =>
       \A i \in 1..Len(ret.transactions) :
         LET raw == call.transactions.kids[i] IN
         /\ ret.transactions[i].debit = TruthyNumber(raw, DebitKeys)
         /\ ret.transactions[i].credit = TruthyNumber(raw, CreditKeys)
  /\ AgingReturned =>
       \A i \in 1..Len(ret.items) :
         /\ ret.items[i].amount = TruthyNumber(call.agingData.kids[i], AmountKeys)
         /\ ret.items[i].days = TruthyNumber(call.agingData.kids[i], DaysKeys)
  /\ ContractsReturned =>
       \A i \in 1..Len(ret.contracts) :
         LET raw == call.contracts.kids[i]
             c == ret.contracts[i]
         IN /\ c.totalRevenue = TruthyNumber(raw, RevenueKeys)
            /\ c.recognized = TruthyNumber(raw, BilledKeys)
            /\ c.remaining = IF FirstTruthy(raw, UnbilledKeys) = Undef
                             THEN NumSub(c.totalRevenue, c.recognized)
                             ELSE ToNumber(FirstTruthy(raw, UnbilledKeys))
  /\ (ShaperReturned("shapeCustomers") /\ ret # Throw) =>
       \A i \in 1..Len(ret.customers) :
         LET raw == call.customers.kids[i] IN
         /\ ret.customers[i].totalRevenue
              = ResolvedNumber(raw, <<"total_revenue", "totalRevenue">>)
         /\ ret.customers[i].totalMrr = ResolvedNumber(raw, <<"total_mrr", "totalMrr">>)
  /\ InvoicesReturned =>
       \A i \in 1..Len(ret.invoices) :
         LET raw == call.invoices.kids[i] IN
         /\ ret.invoices[i].totalAmount
              = ResolvedNumber(raw, <<"totalAmount", "total_amount">>)
         /\ ret.invoices[i].amountDue = ResolvedNumber(raw, <<"amountDue", "amount_due">>)

\* {debit_amount: 0, debit: 5} shaped with debit 5.
C17_WitnessZeroSkipped ==
  /\ ShaperReturned("enrichTransactions")
  /\ call.transactions = Arr(<<Obj(<<"debit_amount", "debit">>, <<Num(0), Num(5 * Unit)>>)>>)
  /\ ret.transactions[1].debit = Num(5 * Unit)
  /\ ret.totalDebits = Num(5 * Unit)

\* {total_revenue: 0, totalRevenue: 5} shaped with totalRevenue 0.
C17_WitnessZeroKept ==
  /\ ShaperReturned("shapeCustomers")
  /\ call.customers = Arr(<<Obj(<<"total_revenue", "totalRevenue">>, <<Num(0), Num(5 * Unit)>>)>>)
  /\ ret.customers[1].totalRevenue = Num(0)

(***************************************************************************)
(* Missing optional fields of the shaped items                             *)
(***************************************************************************)
\* An optional non-numeric field of a shaped item: the shaper, the argument
\* and result lists that hold the raw and shaped items, the field, and the
\* raw keys it is read from.
Optional(fn, arg, list, field, keys) ==
  [fn |-> fn, arg |-> arg, list |-> list, field |-> field, keys |-> keys]

OptionalFields ==
  { Optional("enrichTransactions", "transactions", "transactions", "vendorName",
             <<"vendor_name", "vendorName">>),
    Optional("enrichTransactions", "transactions", "transactions", "departmentName",
             <<"department_name", "departmentName">>),
    Optional("enrichTransactions", "transactions", "transactions", "description",
             <<"description", "memo">>),
    Optional("analyzeAging", "agingData", "items", "invoiceNumber",
             <<"invoice_number", "reference">>),
    Optional("analyzeAging", "agingData", "items", "dueDate", <<"due_date">>),
    Optional("analyzeContracts", "contracts", "contracts", "clientName",
             <<"client_name", "clientName">>),
    Optional("analyzeContracts", "contracts", "contracts", "endDate",
             <<"end_date", "endDate">>),
    Optional("shapeCustomers", "customers", "customers", "companyName",
             <<"company_name", "companyName">>),
    Optional("shapeInvoices", "invoices", "invoices", "dueDate", <<"dueDate", "due_date">>),
    Optional("shapeBudgets", "budgets", "budgets", "description", <<"description">>),
    Optional("shapeBudgets", "budgets", "budgets", "endDate", <<"end_date">>),
    Optional("shapeBudgets", "budgets", "budgets", "departmentName", <<"department_name">>),
    Optional("shapeBudgetDetail", "allocations", "allocations", "departmentName",
             <<"department_name">>) }

\* The shapers that default a missing optional field to null.
NullDefaulting == {"shapeBudgets", "shapeBudgetDetail"}

\* Raw item i of the call lacks every key of the field.
AllKeysMissing(f, i) ==
  \A k \in 1..Len(f.keys) : Get(call[f.arg].kids[i], f.keys[k]) = Undef

\* C18: an optional non-numeric field whose raw keys are all missing is
\* emitted as null, never as undefined.
C18_MissingOptionalIsNull ==
  \A f \in OptionalFields :
    (ShaperReturned(f.fn) /\ ret # Throw) =>
      \A i \in 1..Len(ret[f.list]) :
        AllKeysMissing(f, i) => ret[f.list][i][f.field] = Null

\* What the code emits: null in the budget shapers, undefined in the
\* others.
C18_NullInBudgetsOnly ==
  \A f \in OptionalFields :
    (ShaperReturned(f.fn) /\ ret # Throw) =>
      \A i \in 1..Len(ret[f.list]) :
        AllKeysMissing(f, i) =>
          ret[f.list][i][f.field] = IF f.fn \in NullDefaulting THEN Null ELSE Undef

\* A transaction without vendor keys shaped with vendorName undefined.
C18_WitnessUndefined ==
  /\ ShaperReturned("enrichTransactions")
  /\ call.transactions = Arr(<<Obj(<<"debit">>, <<Str("n/a")>>)>>)
  /\ ret.transactions[1].vendorName = Undef

\* A budget without description shaped with description null.
C18_WitnessNull ==
  /\ ShaperReturned("shapeBudgets")
  /\ ret # Throw
  /\ Len(ret.budgets) = 1
  /\ ret.budgets[1].name = Str("Lab")
  /\ ret.budgets[1].description = Null

(***************************************************************************)
(* Rounding of the aggregates                                              *)
(***************************************************************************)
\* The values of field f of the items that are grouped under `name` by
\* their field keyField.
MemberValues(items, keyField, name, f) ==
  LET members == SelectSeq(items, LAMBDA it : it[keyField] = Str(name)) IN
  [i \in 1..Len(members) |-> members[i][f]]

\* Each group's field totalField is the sum of its members' field f, rounded
\* once to 2 decimals.
GroupTotalsRounded(groups, totalField, items, keyField, f) ==
  \A g \in 1..Len(groups.keys) :
    RoundedSum(groups.vals[g][totalField], MemberValues(items, keyField, groups.keys[g], f))

\* Each group's field totalField is the exact sum of its members' field f.
GroupTotalsExact(groups, totalField, items, keyField, f) ==
  \A g \in 1..Len(groups.keys) :
    LET xs == MemberValues(items, keyField, groups.keys[g], f) IN
    groups.vals[g][totalField] = IF AllFinite(xs) THEN Num(SumThousandths(xs)) ELSE NaN

FieldOf(items, f) == [i \in 1..Len(items) |-> items[i][f]]

\* The aggregates that every shaper but the transaction grouping rounds.
RoundedElsewhere ==
  /\ (ShaperReturned("enrichTransactions") /\ ret # Throw) =>
       /\ RoundedSum(ret.totalDebits, FieldOf(ret.transactions, "debit"))
       /\ RoundedSum(ret.totalCredits, FieldOf(ret.transactions, "credit"))
  /\ AgingReturned =>
       /\ RoundedSum(ret.totalOutstanding, FieldOf(ret.items, "amount"))
       /\ GroupTotalsRounded(ret.buckets, "total", ret.items, "bucket", "amount")
  /\ ContractsReturned =>
       /\ RoundedSum(ret.totalRevenue, FieldOf(ret.contracts, "totalRevenue"))
       /\ RoundedSum(ret.totalRecognized, FieldOf(ret.contracts, "recognized"))
       /\ RoundedSum(ret.totalRemaining, FieldOf(ret.contracts, "remaining"))
  /\ (ShaperReturned("shapeCustomers") /\ ret # Throw) =>
       /\ RoundedSum(ret.totalRevenue, FieldOf(ret.customers, "totalRevenue"))
       /\ RoundedSum(ret.totalMrr, FieldOf(ret.customers, "totalMrr"))
       /\ RoundedSum(ret.totalOutstanding, FieldOf(ret.customers, "totalOutstanding"))
  /\ InvoicesReturned =>
       /\ RoundedSum(ret.totalAmount, FieldOf(ret.invoices, "totalAmount"))
       /\ RoundedSum(ret.totalPaid, FieldOf(ret.invoices, "amountPaid"))
       /\ RoundedSum(ret.totalDue, FieldOf(ret.invoices, "amountDue"))
       /\ GroupTotalsRounded(ret.byStatus, "totalAmount", ret.invoices, "status", "totalAmount")
       /\ GroupTotalsRounded(ret.byStatus, "totalDue", ret.invoices, "status", "amountDue")
  /\ (ShaperReturned("shapeTrialBalance") /\ ret # Throw) =>
       /\ RoundedSum(ret.totalDebits, FieldOf(ret.accounts, "debits"))
       /\ RoundedSum(ret.totalCredits, FieldOf(ret.accounts, "credits"))
       /\ GroupTotalsRounded(ret.byAccountType, "debits", ret.accounts, "accountType", "debits")
       /\ GroupTotalsRounded(ret.byAccountType, "credits", ret.accounts, "accountType",
                             "credits")
  /\ (ShaperReturned("shapeBudgetDetail") /\ ret # Throw) =>
       /\ RoundedSum(ret.totalBudgeted, FieldOf(ret.allocations, "amount"))
       /\ \A g \in 1..Len(ret.byAccountType.keys) :
            RoundedSum(ret.byAccountType.vals[g].total,
                       FieldOf(SelectSeq(ret.allocations,
                                         LAMBDA a : AllocationAccountType(a)
                                                      = Str(ret.byAccountType.keys[g])),
                               "amount"))
       /\ \A g \in 1..Len(ret.byDepartment.keys) :
            RoundedSum(ret.byDepartment.vals[g].total,
                       FieldOf(SelectSeq(ret.allocations,
                                         LAMBDA a : Or(a.departmentName, Str("Unassigned"))
                                                      = Str(ret.byDepartment.keys[g])),
                               "amount"))

\* C19: every numeric aggregate is rounded to 2 decimals, once, after the
\* whole list is accumulated, the per-group totals of every grouping
\* included.
C19_AggregatesRounded ==
  /\ RoundedElsewhere
  /\ (ShaperReturned("enrichTransactions") /\ ret # Throw) =>
       /\ GroupTotalsRounded(ret.byAccountType, "debits", ret.transactions, "accountType",
                             "debit")
       /\ GroupTotalsRounded(ret.byAccountType, "credits", ret.transactions, "accountType",
                             "credit")

\* What the code returns: the per-account-type debits and credits of
\* enrichTransactions are the unrounded sums; every other aggregate is
\* rounded.
C19_TransactionGroupsUnrounded ==
  /\ RoundedElsewhere
  /\ (ShaperReturned("enrichTransactions") /\ ret # Throw) =>
       /\ GroupTotalsExact(ret.byAccountType, "debits", ret.transactions, "accountType",
                           "debit")
       /\ GroupTotalsExact(ret.byAccountType, "credits", ret.transactions, "accountType",
                           "credit")

\* One Asset transaction with credit 2.004: totalCredits 2, but the Asset
\* group's credits 2.004.
C19_WitnessUnroundedGroup ==
  /\ ShaperReturned("enrichTransactions")
  /\ ret # Throw
  /\ Len(ret.transactions) = 1
  /\ ret.totalCredits = Num(2 * Unit)
  /\ ret.byAccountType.keys = <<"Asset">>
  /\ ret.byAccountType.vals[1].credits = Num(2004)

(***************************************************************************)
(* Lineage grouping of shapeBudgetDetail                                   *)
(***************************************************************************)
BudgetDetailReturned == ShaperReturned("shapeBudgetDetail") /\ ret # Throw

HasDelimiter(s) == \E i \in 1..Len(s) : SubSeq(s, i, i) = ">"

Blank(s) == \A i \in 1..Len(s) : SubSeq(s, i, i) = " "

\* The prefix of s that has no ">" and ends at the first ">" or at the end
\* of s.
BeforeDelimiter(s) ==
  CHOOSE p \in { SubSeq(s, 1, n) : n \in 0..Len(s) } :
    /\ ~HasDelimiter(p)
    /\ Len(p) = Len(s) \/ SubSeq(s, Len(p) + 1, Len(p) + 1) = ">"

\* The part of s between its leading and its trailing blanks.
Trimmed(s) ==
  CHOOSE m \in { SubSeq(s, i, j) : i \in 1..(Len(s) + 1), j \in 0..Len(s) } :
    /\ Len(m) = 0 \/ (SubSeq(m, 1, 1) # " " /\ SubSeq(m, Len(m), Len(m)) # " ")
    /\ \E l, r \in { SubSeq(s, i, j) : i \in 1..(Len(s) + 1), j \in 0..Len(s) } :
         Blank(l) /\ Blank(r) /\ s = l \o m \o r

Absent(v) == v \in {Undef, Null} \/ v = Str("")

\* The account name of a raw allocation, "Unknown" without one.
NameOrUnknown(a) ==
  IF Absent(Get(a, "account_name")) THEN "Unknown" ELSE Get(a, "account_name").s

\* The group of a raw allocation as the claim words it: the fallback is
\* taken only when the lineage itself is absent or empty.
TopLevelByLineage(a) ==
  IF Absent(Get(a, "account_lineage")) THEN NameOrUnknown(a)
  ELSE Trimmed(BeforeDelimiter(Get(a, "account_lineage").s))

\* The group of a raw allocation with the fallback taken also when the part
\* of the lineage before the first ">" is blank.
TopLevelOrName(a) ==
  IF Absent(Get(a, "account_lineage"))
       \/ Trimmed(BeforeDelimiter(Get(a, "account_lineage").s)) = ""
  THEN NameOrUnknown(a)
  ELSE Trimmed(BeforeDelimiter(Get(a, "account_lineage").s))

\* The indices, in order, of the allocations whose group name in `names` is k.
MembersOf(names, k) ==
  SelectSeq([i \in 1..Len(names) |-> i], LAMBDA i : names[i] = k)

\* byAccountType has exactly the groups `names`, each with the count of its
\* allocations and the rounded sum of their amounts.
GroupedBy(names) ==
  /\ { ret.byAccountType.keys[g] : g \in 1..Len(ret.byAccountType.keys) }
       = { names[i] : i \in 1..Len(names) }
  /\ \A g \in 1..Len(ret.byAccountType.keys) :
       LET members == MembersOf(names, ret.byAccountType.keys[g]) IN
       /\ ret.byAccountType.vals[g].count = Num(Len(members) * Unit)
       /\ RoundedSum(ret.byAccountType.vals[g].total,
                     [m \in 1..Len(members) |-> ret.allocations[members[m]].amount])

StartsWith(s, p) == Len(s) >= Len(p) /\ SubSeq(s, 1, Len(p)) = p

AllUnderExpenses ==
  /\ call.allocations.kids # <<>>
  /\ \A i \in 1..Len(call.allocations.kids) :
       LET lineage == Get(call.allocations.kids[i], "account_lineage") IN
       lineage.t = "string" /\ StartsWith(lineage.s, "Expenses >")

\* When every lineage starts with "Expenses >", the group Expenses holds
\* everything.
ExpensesHoldsAll ==
  AllUnderExpenses =>
    /\ ret.byAccountType.keys = <<"Expenses">>
    /\ ret.byAccountType.vals[1].total = ret.totalBudgeted
    /\ ret.byAccountType.vals[1].count = ret.allocationCount

\* C20 as stated: each allocation is grouped under the trimmed part of its
\* lineage before the first ">", under its account name when the lineage is
\* absent or empty, under "Unknown" without either; a group's total is the
\* rounded sum of its amounts.
C20_GroupedByLineage ==
  BudgetDetailReturned =>
    /\ GroupedBy([i \in 1..Len(call.allocations.kids) |->
                    TopLevelByLineage(call.allocations.kids[i])])
    /\ ExpensesHoldsAll

\* C20 amended: the account name (then "Unknown") is used also when the
\* part of the lineage before the first ">" is blank.
C20_GroupedByLineageOrName ==
  BudgetDetailReturned =>
    /\ GroupedBy([i \in 1..Len(call.allocations.kids) |->
                    TopLevelOrName(call.allocations.kids[i])])
    /\ ExpensesHoldsAll

\* Two allocations under "Expenses > ..." of 1.006 and 2.006: one group of
\* count 2 and total 3.01, the total budgeted.
C20_Witness ==
  /\ BudgetDetailReturned
  /\ AllUnderExpenses
  /\ Len(call.allocations.kids) = 2
  /\ ret.byAccountType.keys = <<"Expenses">>
  /\ ret.byAccountType.vals[1].count = Num(2 * Unit)
  /\ ret.byAccountType.vals[1].total = Num(3010)
  /\ ret.totalBudgeted = Num(3010)

\* The lineage " > Other" of the allocation named Misc: grouped under Misc,
\* not under the empty name.
C20_WitnessBlankSegment ==
  /\ BudgetDetailReturned
  /\ Len(call.allocations.kids) = 1
  /\ Get(call.allocations.kids[1], "account_lineage") = Str(" > Other")
  /\ ret.byAccountType.keys = <<"Misc">>

\* Allocations without lineage: grouped by account name, or under Unknown.
C20_WitnessNoLineage ==
  /\ BudgetDetailReturned
  /\ Len(call.allocations.kids) = 2
  /\ ret.byAccountType.keys = <<"Rent", "Unknown">>

(***************************************************************************)
(* Date range calculator: getMonthRange, getCurrentYTDRange,               *)
(* getCurrentMonthRange, fmt.  A Date is an instant, counted in whole      *)
(* hours since 1970-01-01T00:00Z; tz is the offset of the process time     *)
(* zone in hours east of UTC, so that local time = UTC time + tz.          *)
(***************************************************************************)
MaxMonthsAgo == 13

\* The calendar of the Date object: day number of January 1 of year y, the
\* days of a year before its month m (0..11), and their inverses.
DayFromYear(y) ==
  365 * (y - 1970) + ((y - 1969) \div 4) - ((y - 1901) \div 100) + ((y - 1601) \div 400)

InLeapYear(y) == DayFromYear(y + 1) - DayFromYear(y) = 366

DaysBeforeMonth(y, m) ==
  <<0, 31, 59, 90, 120, 151, 181, 212, 243, 273, 304, 334>>[m + 1]
    + (IF m >= 2 /\ InLeapYear(y) THEN 1 ELSE 0)

YearFromDay(day) ==
  CHOOSE y \in 2000..2050 : DayFromYear(y) <= day /\ day < DayFromYear(y + 1)

MonthFromDay(day) ==
  LET y == YearFromDay(day) IN
  CHOOSE m \in 0..11 :
    /\ DayFromYear(y) + DaysBeforeMonth(y, m) <= day
    /\ m = 11 \/ day < DayFromYear(y) + DaysBeforeMonth(y, m + 1)

DateFromDay(day) ==
  LET y == YearFromDay(day) IN
  day - DayFromYear(y) - DaysBeforeMonth(y, MonthFromDay(day)) + 1

\* The day number of (year, month, date), months and dates outside their
\* ranges carried over: month -1 is December of the year before, date 0 the
\* last day of the month before.
MakeDay(year, month, date) ==
  LET ym == year + (month \div 12)
      mn == month % 12
  IN DayFromYear(ym) + DaysBeforeMonth(ym, mn) + date - 1

\* new Date(year, month, date): midnight of that day in the process time
\* zone.
NewDate(year, month, date, tz) == [time |-> MakeDay(year, month, date) * 24 - tz]

\* d.getFullYear(), d.getMonth(): read in the process time zone.
getFullYear(d, tz) == YearFromDay((d.time + tz) \div 24)
getMonth(d, tz) == MonthFromDay((d.time + tz) \div 24)

\* Decimal text of n on `width` digits, zero padded.
RECURSIVE Padded(_, _)
Padded(n, width) ==
  IF width = 0 THEN "" ELSE Padded(n \div 10, width - 1) \o Digits[(n % 10) + 1]

\* d.toISOString(): the instant in UTC, whatever the process time zone.
toISOString(d) ==
  LET day == d.time \div 24 IN
  Padded(YearFromDay(day), 4) \o "-" \o Padded(MonthFromDay(day) + 1, 2) \o "-"
    \o Padded(DateFromDay(day), 2) \o "T" \o Padded(d.time % 24, 2) \o ":00:00.000Z"

\* d.toISOString().slice(0, 10)
fmt(d) == SubSeq(toISOString(d), 1, 10)

\* A month range whose last day is always the 30th.
getMonthRangeThirty(monthsAgo, now, tz) ==
  LET d == NewDate(getFullYear(now, tz), getMonth(now, tz) - monthsAgo, 1, tz) IN
  [dateFrom |-> fmt(d),
   dateTo |-> fmt(NewDate(getFullYear(d, tz), getMonth(d, tz), 30, tz))]

getMonthRange(monthsAgo, now, tz) ==
  LET d == NewDate(getFullYear(now, tz), getMonth(now, tz) - monthsAgo, 1, tz) IN
  LET dateFrom == fmt(d)
      last == NewDate(getFullYear(d, tz), getMonth(d, tz) + 1, 0, tz)
  IN [dateFrom |-> dateFrom, dateTo |-> fmt(last)]

getCurrentYTDRange(now, tz) ==
  [dateFrom |-> Padded(getFullYear(now, tz), 4) \o "-01-01",
   dateTo |-> fmt(now)]

getCurrentMonthRange(now, tz) ==
  LET first == NewDate(getFullYear(now, tz), getMonth(now, tz), 1, tz) IN
  [dateFrom |-> fmt(first), dateTo |-> fmt(now)]

\* Reference instants: the hours 0, 12 and 23 of the 1st, the 8th, the 28th
\* and the last day of every month of 2023 and of the leap year 2024, in the
\* process time zone.
Offsets == {-8, 0, 2}

NowInputs(tz) ==
  { [time |-> day * 24 + hour - tz] :
      day \in { MakeDay(y, m, date) : y \in {2023, 2024}, m \in 0..11, date \in {1, 8, 28} }
                \cup { MakeDay(y, m + 1, 0) : y \in {2023, 2024}, m \in 0..11 },
      hour \in {0, 12, 23} }

InitDates ==
  /\ pc = "call"
  /\ \E tz \in Offsets :
       call \in [fn : {"getMonthRange"}, monthsAgo : 0..MaxMonthsAgo,
                 now : NowInputs(tz), tz : {tz}]
                  \cup [fn : {"getCurrentYTDRange", "getCurrentMonthRange"},
                        now : NowInputs(tz), tz : {tz}]
  /\ ret = Undef
  /\ promises = <<>>

GetMonthRangeCall ==
  /\ pc = "call"
  /\ call.fn = "getMonthRange"
  /\ ret' = getMonthRange(call.monthsAgo, call.now, call.tz)
  /\ pc' = "done"
  /\ UNCHANGED <<call, promises>>

GetCurrentYTDRangeCall ==
  /\ pc = "call"
  /\ call.fn = "getCurrentYTDRange"
  /\ ret' = getCurrentYTDRange(call.now, call.tz)
  /\ pc' = "done"
  /\ UNCHANGED <<call, promises>>

GetCurrentMonthRangeCall ==
  /\ pc = "call"
  /\ call.fn = "getCurrentMonthRange"
  /\ ret' = getCurrentMonthRange(call.now, call.tz)
  /\ pc' = "done"
  /\ UNCHANGED <<call, promises>>

NextDates == GetMonthRangeCall \/ GetCurrentYTDRangeCall \/ GetCurrentMonthRangeCall

SpecDates == InitDates /\ [][NextDates]_vars

(***************************************************************************)
(* Month ranges                                                            *)
(***************************************************************************)
DateReturned(fn) == pc = "done" /\ call.fn = fn

\* The text YYYY-MM-DD of a calendar date, months counted from 1.
CalendarDate(y, m, d) == Padded(y, 4) \o "-" \o Padded(m, 2) \o "-" \o Padded(d, 2)

\* The length of month m (1..12) of year y by the calendar rule.
LastDayOf(y, m) ==
  IF m \in {4, 6, 9, 11} THEN 30
  ELSE IF m # 2 THEN 31
  ELSE IF (y % 4 = 0 /\ y % 100 # 0) \/ y % 400 = 0 THEN 29
  ELSE 28

\* The calendar date of `now` on the clock of the process time zone.
NowYear == getFullYear(call.now, call.tz)
NowMonth == getMonth(call.now, call.tz) + 1
NowDate == DateFromDay((call.now.time + call.tz) \div 24)

\* The month monthsAgo months before now's month, as months counted from
\* year 0.
TargetMonth == 12 * NowYear + (NowMonth - 1) - call.monthsAgo

\* C21: in a UTC process, getMonthRange(monthsAgo, now) is the first and the
\* last calendar day of the month monthsAgo months before now's month.
C21_MonthRangeUTC ==
  (DateReturned("getMonthRange") /\ call.tz = 0) =>
    LET y == TargetMonth \div 12
        m == (TargetMonth % 12) + 1
    IN /\ ret.dateFrom = CalendarDate(y, m, 1)
       /\ ret.dateTo = CalendarDate(y, m, LastDayOf(y, m))

\* One month before March 2024: the leap February.
C21_Witness ==
  /\ DateReturned("getMonthRange")
  /\ call.tz = 0
  /\ call.monthsAgo = 1
  /\ NowYear = 2024 /\ NowMonth = 3
  /\ ret = [dateFrom |-> "2024-02-01", dateTo |-> "2024-02-29"]

\* Thirteen months before January 2024, across two year boundaries.
C21_WitnessYearBoundary ==
  /\ DateReturned("getMonthRange")
  /\ call.tz = 0
  /\ call.monthsAgo = 13
  /\ NowYear = 2024 /\ NowMonth = 1
  /\ ret = [dateFrom |-> "2022-12-01", dateTo |-> "2022-12-31"]

(***************************************************************************)
(* Ranges up to now                                                        *)
(***************************************************************************)
\* The year, month and day written in a text YYYY-MM-DD, as one number
\* that orders the dates.
DateOrdinal(text) ==
  DecimalValue(SubSeq(text, 1, 4)) * 10000 + DecimalValue(SubSeq(text, 6, 7)) * 100
    + DecimalValue(SubSeq(text, 9, 10))

YearOf(text) == DecimalValue(SubSeq(text, 1, 4))

\* Both ranges run from their first day to now's calendar date, in order and
\* within now's year.
RangesUpToNow ==
  /\ DateReturned("getCurrentYTDRange") =>
       ret.dateFrom = CalendarDate(NowYear, 1, 1)
  /\ DateReturned("getCurrentMonthRange") =>
       ret.dateFrom = CalendarDate(NowYear, NowMonth, 1)
  /\ (DateReturned("getCurrentYTDRange") \/ DateReturned("getCurrentMonthRange")) =>
       /\ ret.dateTo = CalendarDate(NowYear, NowMonth, NowDate)
       /\ DateOrdinal(ret.dateFrom) <= DateOrdinal(ret.dateTo)
       /\ YearOf(ret.dateFrom) = NowYear
       /\ YearOf(ret.dateTo) = NowYear

\* C22: for every instant and every UTC offset of the process, the
\* year-to-date and month-to-date ranges start on January 1 / the first of
\* the month and end on now's calendar date, dateFrom <= dateTo, both in
\* now's year.
C22_RangesUpToNow == RangesUpToNow

\* What holds: the same in a process whose time zone is UTC.
C22_RangesUpToNowUTC == call.tz = 0 => RangesUpToNow

\* Two hours east of UTC, at local midnight of January 1, 2024: the range
\* runs from 2024-01-01 back to 2023-12-31.
C22_WitnessEast ==
  /\ DateReturned("getCurrentYTDRange")
  /\ call.tz = 2
  /\ ret = [dateFrom |-> "2024-01-01", dateTo |-> "2023-12-31"]

\* Eight hours west of UTC, at 23:00 of December 31, 2023: the range ends
\* in 2024.
C22_WitnessWest ==
  /\ DateReturned("getCurrentMonthRange")
  /\ call.tz = -8
  /\ ret = [dateFrom |-> "2023-12-01", dateTo |-> "2024-01-01"]

\* Two hours east of UTC the month range of February 8 starts in January.
C22_WitnessMonthStart ==
  /\ DateReturned("getCurrentMonthRange")
  /\ call.tz = 2
  /\ ret = [dateFrom |-> "2024-01-31", dateTo |-> "2024-02-08"]

(***************************************************************************)
(* Tool handlers of the server (index.ts).  A handler runs up to its       *)
(* await with its API requests issued; `promises` holds one entry per      *)
(* request, pending until the API answers.  An answer is one step of the   *)
(* event loop: it settles its promise and, with it, whatever the           *)
(* continuations of the handler do before the loop is idle again.          *)
(***************************************************************************)
MaxMonthsArg == 7

\* An Error object thrown or rejected with; a raised TypeError carries the
\* message of the engine, one text here.
ErrorOf(message) == [t |-> "Error", message |-> message]
TypeErrorOf == ErrorOf("Cannot read properties of null")

\* String(err) of a rejection that is no Error object.
String(v) == IF v.t = "string" THEN v.s ELSE v.t

\* An error result that is not flagged as one.
errorResultUnflagged(toolName, err) ==
  LET message == IF err.t = "Error" THEN err.message ELSE String(err) IN
  [ content |-> <<[type |-> "text", text |-> "Error in " \o toolName \o ": " \o message]>> ]

errorResult(toolName, err) ==
  LET message == IF err.t = "Error" THEN err.message ELSE String(err) IN
  [ content |-> <<[type |-> "text", text |-> "Error in " \o toolName \o ": " \o message]>>,
    isError |-> TRUE ]

\* JSON.stringify of a number or null: NaN is written null.
StringifyNumber(v) == IF v = NaN THEN Null ELSE v

\* JSON.stringify(result, null, 2) of a burn rate result, as the tree of the
\* text.
StringifyBurnRate(result) ==
  [ json |->
      [ monthlyBurnAvg |-> StringifyNumber(result.monthlyBurnAvg),
        monthlyBurns |->
          [i \in 1..Len(result.monthlyBurns) |->
             [month |-> result.monthlyBurns[i].month,
              burn |-> StringifyNumber(result.monthlyBurns[i].burn)]],
        trend |-> result.trend,
        cashPosition |-> StringifyNumber(result.cashPosition),
        runwayMonths |-> StringifyNumber(result.runwayMonths) ],
    indent |-> 2 ]

TextResult(text) == [content |-> <<[type |-> "text", text |-> text]>>]

\* A request as issued: pending.
Request(api, dateFrom, dateTo) ==
  [api |-> api, dateFrom |-> dateFrom, dateTo |-> dateTo, state |-> "pending",
   value |-> Undef]

\* Math.max(months ?? 6, 3), as a count of months.
NumMonths(months) ==
  LET asked == Coalesce(months, Num(6 * Unit)) IN
  IF asked.n > 3 * Unit THEN asked.n \div Unit ELSE 3

\* new Date(dateFrom).toLocaleString("default", {month: "short", year:
\* "numeric"}): the text is read as midnight UTC and shown on the local clock.
ShortMonths ==
  <<"Jan", "Feb", "Mar", "Apr", "May", "Jun", "Jul", "Aug", "Sep", "Oct", "Nov", "Dec">>

MonthLabel(dateFrom, tz) ==
  LET d == [time |-> MakeDay(DecimalValue(SubSeq(dateFrom, 1, 4)),
                             DecimalValue(SubSeq(dateFrom, 6, 7)) - 1,
                             DecimalValue(SubSeq(dateFrom, 9, 10))) * 24]
  IN ShortMonths[getMonth(d, tz) + 1] \o " " \o Padded(getFullYear(d, tz), 4)

\* The requests issued newest month first.
BurnRateRequestsNewestFirst(months, now, tz) ==
  LET numMonths == NumMonths(months) IN
  [ j \in 1..(numMonths + 1) |->
      IF j <= numMonths
      THEN LET range == getMonthRange(j, now, tz) IN
           Request("caApiGetIncomeStatementRetrieve", range.dateFrom, range.dateTo)
      ELSE LET currentMonth == getCurrentMonthRange(now, tz) IN
           Request("caApiGetBalanceSheetRetrieve", currentMonth.dateFrom,
                   currentMonth.dateTo) ]

\* The requests of get_burn_rate, lines 134-151: numMonths income
\* statements, numMonths months ago first, then the balance sheet.
BurnRateRequests(months, now, tz) ==
  LET numMonths == NumMonths(months) IN
  [ j \in 1..(numMonths + 1) |->
      IF j <= numMonths
      THEN LET range == getMonthRange(numMonths - j + 1, now, tz) IN
           Request("caApiGetIncomeStatementRetrieve", range.dateFrom, range.dateTo)
      ELSE LET currentMonth == getCurrentMonthRange(now, tz) IN
           Request("caApiGetBalanceSheetRetrieve", currentMonth.dateFrom,
                   currentMonth.dateTo) ]

\* The value of monthlyPromises[j] once fulfilled: the .then of line 140.
MonthlyStatement(request, tz) ==
  [label |-> MonthLabel(request.dateFrom, tz), data |-> request.value.data]

\* Lines 158-165, with the catch of line 166.
BurnRateResult(monthlyStatements, balanceResp) ==
  LET result == computeBurnRate(monthlyStatements, balanceResp.data) IN
  IF result = Throw THEN errorResult("get_burn_rate", TypeErrorOf)
  ELSE TextResult(StringifyBurnRate(result))

\* now.toLocaleString("default", {month: "long", year: "numeric"})
LongMonths ==
  <<"January", "February", "March", "April", "May", "June", "July", "August",
    "September", "October", "November", "December">>

\* The requests get_financial_snapshot issues first, lines 74-84, and those
\* it issues once these are answered, lines 87-94.
SnapshotMonthRequests(now, tz) ==
  LET monthRange == getCurrentMonthRange(now, tz) IN
  << Request("caApiGetIncomeStatementRetrieve", monthRange.dateFrom, monthRange.dateTo),
     Request("caApiGetBalanceSheetRetrieve", monthRange.dateFrom, monthRange.dateTo),
     Request("caApiGetCashFlowRetrieve", monthRange.dateFrom, monthRange.dateTo) >>

SnapshotYTDRequests(now, tz) ==
  LET ytdRange == getCurrentYTDRange(now, tz) IN
  << Request("caApiGetIncomeStatementRetrieve", ytdRange.dateFrom, ytdRange.dateTo),
     Request("caApiGetBalanceSheetRetrieve", ytdRange.dateFrom, ytdRange.dateTo) >>

\* JSON.stringify of one snapshot.
StringifySnapshot(snapshot) ==
  [ period |-> snapshot.period,
    revenue |-> StringifyNumber(snapshot.revenue),
    expenses |-> StringifyNumber(snapshot.expenses),
    netIncome |-> StringifyNumber(snapshot.netIncome),
    grossMarginPercent |-> StringifyNumber(snapshot.grossMarginPercent),
    netMarginPercent |-> StringifyNumber(snapshot.netMarginPercent),
    cashPosition |-> StringifyNumber(snapshot.cashPosition),
    currentRatio |-> StringifyNumber(snapshot.currentRatio) ]

\* Lines 96-111 of get_financial_snapshot, with the catch of line 112; the
\* five answers in order of issue.
SnapshotResult(answers, now, tz) ==
  LET monthLabel == LongMonths[getMonth(now, tz) + 1] \o " " \o Padded(getFullYear(now, tz), 4)
      currentMonth == buildFinancialSnapshot(answers[1].data, answers[2].data,
                                             answers[3].data,
                                             "Current Month (" \o monthLabel \o ")")
      ytd == buildFinancialSnapshot(answers[4].data, answers[5].data, Null,
                                    "YTD " \o Padded(getFullYear(now, tz), 4))
  IN IF currentMonth = Throw \/ ytd = Throw
     THEN errorResult("get_financial_snapshot", TypeErrorOf)
     ELSE TextResult([ json |-> [currentMonth |-> StringifySnapshot(currentMonth),
                                 ytd |-> StringifySnapshot(ytd)],
                       indent |-> 2 ])

\* JSON.stringify of the summary of enrichTransactions: a member that is
\* undefined is left out, NaN is written null.
StringifyTransactions(result) ==
  [ json |->
      [ totalTransactions |-> result.totalTransactions,
        totalDebits |-> StringifyNumber(result.totalDebits),
        totalCredits |-> StringifyNumber(result.totalCredits),
        byAccountType |->
          Obj(result.byAccountType.keys,
              [g \in 1..Len(result.byAccountType.vals) |->
                 [f \in DOMAIN result.byAccountType.vals[g] |->
                    StringifyNumber(result.byAccountType.vals[g][f])]]),
        transactions |->
          [i \in 1..Len(result.transactions) |->
             [f \in { g \in DOMAIN result.transactions[i] :
                        result.transactions[i][g] # Undef } |->
                StringifyNumber(result.transactions[i][f])]] ],
    indent |-> 2 ]

\* Lines 278-282 of get_transactions, with the catch of line 283.
TransactionsResult(resp) ==
  LET raw == IF resp.data.t = "array" THEN resp.data
             ELSE Or(OptGet(resp.data, "results"), Arr(<<>>))
      result == enrichTransactions(raw)
  IN IF result = Throw THEN errorResult("get_transactions", TypeErrorOf)
     ELSE TextResult(StringifyTransactions(result))

\* What the API answers to a request: the statement of the month asked
\* for, a balance sheet, a cash flow statement, a page of transactions, or a
\* failure.
StatementOf(request) ==
  LET month == DecimalValue(SubSeq(request.dateFrom, 6, 7)) IN
  MonthData(Num(month * Unit), Num(2 * month * Unit))

TransactionPages ==
  { Arr(<<Obj(<<"id", "account_type", "vendor_name", "debit_amount">>,
              <<Num(Unit), Str("Asset"), Str("Acme"), Num(1005)>>),
          Obj(<<"id", "credit">>, <<Num(2 * Unit), Str("n/a")>>)>>),
    Obj(<<"results">>, <<Arr(<<Obj(<<"id", "debit">>, <<Num(3 * Unit), Num(5 * Unit)>>)>>)>>),
    Obj(<<"results">>, <<Str("none")>>),
    Null,
    Arr(<<Null>>) }

Responses(request) ==
  IF request.api = "caApiGetIncomeStatementRetrieve"
  THEN {[data |-> StatementOf(request)]}
  ELSE IF request.api = "caApiGetBalanceSheetRetrieve"
  THEN {[data |-> Obj(<<"Cash">>, <<Obj(<<"total">>, <<Num(50 * Unit)>>)>>)],
        [data |-> Arr(<<Null>>)]}
  ELSE IF request.api = "caApiGetCashFlowRetrieve"
  THEN {[data |-> Obj(<<>>, <<>>)]}
  ELSE { [data |-> page] : page \in TransactionPages }

Failures == {ErrorOf("Request failed with status code 500"), Str("socket hang up")}

\* Promise i settled with an answer or a failure.
Settled(i, state, value) ==
  [promises EXCEPT ![i] = [@ EXCEPT !.state = state, !.value = value]]

\* The clock of the process at the call: noon UTC of March 8, 2024, and
\* 23:00 of January 31, 2024 eight hours west of UTC.
ToolClocks ==
  { [now |-> [time |-> MakeDay(2024, 2, 8) * 24 + 12], tz |-> 0],
    [now |-> [time |-> MakeDay(2024, 0, 31) * 24 + 23 + 8], tz |-> -8] }

MonthsArgs == {Undef} \cup { Num(k * Unit) : k \in {1, 3, 4, MaxMonthsArg} }

InitTools ==
  /\ pc = "call"
  /\ \E clock \in ToolClocks :
       call \in [tool : {"get_burn_rate"}, months : MonthsArgs, now : {clock.now},
                 tz : {clock.tz}]
                  \cup [tool : {"get_financial_snapshot", "get_transactions"},
                        now : {clock.now}, tz : {clock.tz}]
  /\ ret = Undef
  /\ promises = <<>>

\* get_burn_rate up to its await, line 153.
BurnRateStart ==
  /\ pc = "call"
  /\ call.tool = "get_burn_rate"
  /\ promises' = BurnRateRequests(call.months, call.now, call.tz)
  /\ pc' = "await"
  /\ UNCHANGED <<call, ret>>

\* An answer to a request of get_burn_rate.  The first rejection rejects
\* the Promise.all of line 153 and the catch returns; the last fulfilment
\* fulfils it and lines 158-165 run.  Answers after the return find nobody
\* waiting.
BurnRateSettle ==
  /\ call.tool = "get_burn_rate"
  /\ \E i \in 1..Len(promises) :
       /\ promises[i].state = "pending"
       /\ \/ \E err \in Failures :
               /\ promises' = Settled(i, "rejected", err)
               /\ IF pc = "await"
                  THEN pc' = "done" /\ ret' = errorResult("get_burn_rate", err)
                  ELSE UNCHANGED <<pc, ret>>
          \/ \E resp \in Responses(promises[i]) :
               /\ promises' = Settled(i, "fulfilled", resp)
               /\ IF pc = "await" /\ \A j \in 1..Len(promises) :
                                       promises'[j].state = "fulfilled"
                  THEN /\ pc' = "done"
                       /\ ret' = LET n == Len(promises) - 1 IN
                                 BurnRateResult(
                                   [j \in 1..n |-> MonthlyStatement(promises'[j], call.tz)],
                                   promises'[n + 1].value)
                  ELSE UNCHANGED <<pc, ret>>
  /\ UNCHANGED call

\* get_financial_snapshot up to its first await, line 74.
SnapshotStart ==
  /\ pc = "call"
  /\ call.tool = "get_financial_snapshot"
  /\ promises' = SnapshotMonthRequests(call.now, call.tz)
  /\ pc' = "await"
  /\ UNCHANGED <<call, ret>>

\* An answer to a request of get_financial_snapshot.  A rejection while the
\* handler waits ends it in the catch; the last answer of the month batch
\* takes it to the year-to-date requests and the second await, line 87; the
\* last answer of that batch to lines 96-111.
SnapshotSettle ==
  /\ call.tool = "get_financial_snapshot"
  /\ \E i \in 1..Len(promises) :
       /\ promises[i].state = "pending"
       /\ \/ \E err \in Failures :
               /\ promises' = Settled(i, "rejected", err)
               /\ IF pc \in {"await", "await2"}
                  THEN pc' = "done" /\ ret' = errorResult("get_financial_snapshot", err)
                  ELSE UNCHANGED <<pc, ret>>
          \/ \E resp \in Responses(promises[i]) :
               LET settled == Settled(i, "fulfilled", resp)
                   answered == \A j \in 1..Len(settled) : settled[j].state = "fulfilled"
               IN IF pc = "await" /\ answered
                  THEN /\ promises' = settled \o SnapshotYTDRequests(call.now, call.tz)
                       /\ pc' = "await2"
                       /\ UNCHANGED ret
                  ELSE IF pc = "await2" /\ answered
                  THEN /\ promises' = settled
                       /\ pc' = "done"
                       /\ ret' = SnapshotResult([j \in 1..Len(settled) |-> settled[j].value],
                                                call.now, call.tz)
                  ELSE /\ promises' = settled
                       /\ UNCHANGED <<pc, ret>>
  /\ UNCHANGED call

\* get_transactions up to its await, line 274.
TransactionsStart ==
  /\ pc = "call"
  /\ call.tool = "get_transactions"
  /\ promises' = <<Request("caApiGetTransactionsList", Undef, Undef)>>
  /\ pc' = "await"
  /\ UNCHANGED <<call, ret>>

\* The answer to the request of get_transactions.
TransactionsSettle ==
  /\ call.tool = "get_transactions"
  /\ pc = "await"
  /\ promises[1].state = "pending"
  /\ \/ \E err \in Failures :
          /\ promises' = Settled(1, "rejected", err)
          /\ ret' = errorResult("get_transactions", err)
     \/ \E resp \in Responses(promises[1]) :
          /\ promises' = Settled(1, "fulfilled", resp)
          /\ ret' = TransactionsResult(resp)
  /\ pc' = "done"
  /\ UNCHANGED call

NextTools ==
  \/ BurnRateStart
  \/ BurnRateSettle
  \/ SnapshotStart
  \/ SnapshotSettle
  \/ TransactionsStart
  \/ TransactionsSettle

SpecTools == InitTools /\ [][NextTools]_vars

(***************************************************************************)
(* Months analysed by get_burn_rate                                        *)
(***************************************************************************)
BurnRateIssued == call.tool = "get_burn_rate" /\ pc # "call"

\* The income statements requested, in order of issue.
StatementsFetched ==
  SelectSeq(promises, LAMBDA p : p.api = "caApiGetIncomeStatementRetrieve")

BurnRateReturned ==
  call.tool = "get_burn_rate" /\ pc = "done" /\ "isError" \notin DOMAIN ret

StatementsAnalysed == Len(ret.content[1].text.json.monthlyBurns)

\* C23: get_burn_rate fetches and analyses at least 3 and at most 6
\* monthly statements, 6 when months is absent.
C23_ThreeToSixMonths ==
  /\ BurnRateIssued =>
       /\ Len(StatementsFetched) \in 3..6
       /\ call.months = Undef => Len(StatementsFetched) = 6
  /\ BurnRateReturned => StatementsAnalysed \in 3..6

\* What the handler does: at least 3, 6 when months is absent, and as many
\* as asked for above 3.
C23_AtLeastThreeMonths ==
  /\ BurnRateIssued =>
       /\ Len(StatementsFetched) >= 3
       /\ call.months = Undef => Len(StatementsFetched) = 6
       /\ (call.months # Undef /\ call.months.n >= 3 * Unit) =>
            Len(StatementsFetched) * Unit = call.months.n
  /\ BurnRateReturned => StatementsAnalysed = Len(StatementsFetched)

\* months = 7: seven statements fetched and analysed.
C23_WitnessSeven ==
  /\ BurnRateReturned
  /\ call.months = Num(7 * Unit)
  /\ Len(StatementsFetched) = 7
  /\ StatementsAnalysed = 7

\* months absent: six statements.
C23_WitnessDefault ==
  /\ BurnRateReturned
  /\ call.months = Undef
  /\ StatementsAnalysed = 6

(***************************************************************************)
(* Recursion of extractTotal into the child collections of a list node     *)
(***************************************************************************)
RECURSIVE SearchAllCollections(_, _), SiblingSearch(_, _, _), CollectionSearch(_, _, _)

\* The search the claim describes: an element whose label does not match is
\* searched in each of its collections children, rows, items, line_items,
\* in that order; the first nonzero result is returned, a zero result moves
\* on, to the next collection and then to the next sibling.
CollectionSearch(item, keywords, c) ==
  IF c > Len(ChildKeys) THEN Num(0)
  ELSE LET nested == Get(item, ChildKeys[c]) IN
       IF Truthy(nested)
       THEN LET found == SearchAllCollections(nested, keywords) IN
            IF found # Num(0) THEN found ELSE CollectionSearch(item, keywords, c + 1)
       ELSE CollectionSearch(item, keywords, c + 1)

SiblingSearch(items, keywords, i) ==
  IF i > Len(items) THEN Num(0)
  ELSE LET item == items[i] IN
    IF Nullish(item) \/ ItemLabel(item).t # "string" THEN Throw
    ELSE IF someIncludes(toLowerCase(ItemLabel(item).s), keywords)
         THEN ToNumber(ItemValue(item))
         ELSE LET found == CollectionSearch(item, keywords, 1) IN
              IF found # Num(0) THEN found ELSE SiblingSearch(items, keywords, i + 1)

SearchAllCollections(data, keywords) ==
  IF data.t = "array" THEN SiblingSearch(data.kids, keywords, 1)
  ELSE extractTotal(data, keywords)

\* Every element of the list, at any depth, holds at most one collection.
RECURSIVE OneCollectionEach(_)
OneCollectionEach(data) ==
  data.t = "array" =>
    \A i \in 1..Len(data.kids) :
      LET item == data.kids[i] IN
      item.t = "object" =>
        /\ Cardinality({ c \in 1..Len(ChildKeys) : Truthy(Get(item, ChildKeys[c])) }) <= 1
        /\ \A c \in 1..Len(ChildKeys) : OneCollectionEach(Get(item, ChildKeys[c]))

ListSearched ==
  /\ pc = "done"
  /\ call.fn = "extractTotal"
  /\ call.data.t = "array"
  /\ ret # Throw
  /\ SearchAllCollections(call.data, call.keywords) # Throw

\* C24: on a list node a matching nonzero line item under children, rows,
\* items or line_items of an element without a matching label, at any depth,
\* is found when no earlier element matches; a zero result moves on.
C24_NestedItemFound ==
  ListSearched => ret = SearchAllCollections(call.data, call.keywords)

\* What holds: the same when no element holds two collections.
C24_SingleCollectionFound ==
  (ListSearched /\ OneCollectionEach(call.data)) =>
    ret = SearchAllCollections(call.data, call.keywords)

\* An element with an empty children list and the revenue line under rows:
\* the line is not found.
C24_WitnessSecondCollection ==
  /\ ListSearched
  /\ ~OneCollectionEach(call.data)
  /\ ret = Num(0)
  /\ SearchAllCollections(call.data, call.keywords) = Num(2 * Unit)

\* A nested line found after a sibling whose collection gave zero.
C24_WitnessNested ==
  /\ ListSearched
  /\ OneCollectionEach(call.data)
  /\ Len(call.data.kids) = 2
  /\ \A i \in 1..2 : ~someIncludes(toLowerCase(ItemLabel(call.data.kids[i]).s),
                                   call.keywords)
  /\ ret # Num(0)

(***************************************************************************)
(* The split of the months into halves                                     *)
(***************************************************************************)
\* With the first `first` months as the first half and the rest as the
\* second: the sign of (mean of the second half - mean of the first half)
\* - tenths/10 * the reported average.
DiffAtSplit(first, tenths) ==
  LET n == Len(ret.monthlyBurns)
      s1 == BurnTotal(1, first)
      s2 == BurnTotal(first + 1, n)
  IN 10 * (s2 * first - s1 * (n - first))
       - tenths * ret.monthlyBurnAvg.n * first * (n - first)

\* The trend read off the halves split after the first `first` months:
\* increasing above a tenth of the average, else decreasing below minus a
\* tenth of it, else stable.
TrendAtSplit(first) ==
  ret.trend = IF DiffAtSplit(first, 1) > 0 THEN "increasing"
              ELSE IF DiffAtSplit(first, -1) < 0 THEN "decreasing"
              ELSE "stable"

OddMonths ==
  /\ BurnReturned
  /\ Len(ret.monthlyBurns) >= 3
  /\ Len(ret.monthlyBurns) % 2 = 1
  /\ NumericBurns

\* C25: with an odd number N >= 3 of months the first (older) half takes
\* the extra month: its mean is over one more month than the second's.
C25_FirstHalfTakesExtra ==
  OddMonths => TrendAtSplit(Len(ret.monthlyBurns) - (Len(ret.monthlyBurns) \div 2))

\* C25 amended: the second (newer) half takes the extra month.
C25_SecondHalfTakesExtra ==
  OddMonths => TrendAtSplit(Len(ret.monthlyBurns) \div 2)

\* Three months where the two splits disagree and the trend is the one of
\* the split after the first month.
C25_Witness ==
  /\ OddMonths
  /\ Len(ret.monthlyBurns) = 3
  /\ TrendAtSplit(1)
  /\ ~TrendAtSplit(2)

(***************************************************************************)
(* Specification of round: one call on a number of thousandths             *)
(***************************************************************************)
MaxThousandths == 130

InitRound ==
  /\ pc = "call"
  /\ call \in [fn : {"round"}, n : { Num(k) : k \in (-MaxThousandths)..MaxThousandths },
               decimals : 0..DefaultDecimals]
  /\ ret = Undef
  /\ promises = <<>>

RoundCall ==
  /\ pc = "call"
  /\ call.fn = "round"
  /\ ret' = round(Exact(call.n), call.decimals)
  /\ pc' = "done"
  /\ UNCHANGED <<call, promises>>

NextRound == RoundCall

SpecRound == InitRound /\ [][NextRound]_vars

RoundReturned == pc = "done" /\ call.fn = "round"

\* Thousandths in one step 10^-decimals.
StepOf(decimals) == Unit \div Pow10(decimals)

\* ret is a multiple of the step that is nearest to n.
NearestStep ==
  /\ ret.t = "number"
  /\ ret.n % StepOf(call.decimals) = 0
  /\ 2 * Abs(ret.n - call.n.n) <= StepOf(call.decimals)

\* n lies exactly halfway between two multiples of the step.
Halfway == 2 * Abs(ret.n - call.n.n) = StepOf(call.decimals)

\* C26: round(n, decimals) is the nearest multiple of 10^-decimals, a tie
\* going to the multiple of larger magnitude, for negative n too.
C26_HalfAwayFromZero ==
  RoundReturned =>
    /\ NearestStep
    /\ Halfway => Abs(ret.n) > Abs(call.n.n)

\* What Math.round does: a tie goes to the larger multiple, which for a
\* negative n is the one of smaller magnitude.
C26_HalfTowardPositive ==
  RoundReturned =>
    /\ NearestStep
    /\ Halfway => ret.n > call.n.n

\* round(-0.125) = -0.12
C26_WitnessNegativeTie ==
  /\ RoundReturned
  /\ call.n = Num(-125)
  /\ call.decimals = 2
  /\ ret = Num(-120)

\* round(0.125) = 0.13
C26_WitnessPositiveTie ==
  /\ RoundReturned
  /\ call.n = Num(125)
  /\ call.decimals = 2
  /\ ret = Num(130)

(***************************************************************************)
(* Direction of the trend                                                  *)
(***************************************************************************)
\* The sign of mean(second half) - mean(first half), halves as the code
\* splits them.
HalvesDiff == DiffAtSplit(Len(ret.monthlyBurns) \div 2, 0)

TrendJudged ==
  /\ BurnReturned
  /\ Len(ret.monthlyBurns) >= 3
  /\ NumericBurns

\* C27: the trend is "increasing" only if the second half's mean burn is
\* strictly above the first half's, and "decreasing" only if strictly below,
\* whatever the sign of the average burn.
C27_TrendFollowsChange ==
  TrendJudged =>
    /\ ret.trend = "increasing" => HalvesDiff > 0
    /\ ret.trend = "decreasing" => HalvesDiff < 0

\* What holds: the same when the average burn is not negative.
C27_HoldsForNonNegativeAverage ==
  (TrendJudged /\ ret.monthlyBurnAvg.n >= 0) =>
    /\ ret.trend = "increasing" => HalvesDiff > 0
    /\ ret.trend = "decreasing" => HalvesDiff < 0

\* Three equal negative burns: no change between the halves, yet the trend
\* is "increasing".
C27_WitnessNoChange ==
  /\ TrendJudged
  /\ ret.monthlyBurnAvg.n < 0
  /\ HalvesDiff = 0
  /\ ret.trend = "increasing"

(***************************************************************************)
(* Consistency of the snapshot's reported fields                           *)
(***************************************************************************)
NetComputed ==
  /\ SnapshotReturned
  /\ SearchedNetIncome = Num(0)
  /\ ret.revenue.t = "number"
  /\ ret.expenses.t = "number"

\* C28: when the net-income search returns 0, the reported netIncome is the
\* reported revenue minus the reported expenses, whatever the sign of the
\* expense line.
C28_ReportedFieldsConsistent ==
  NetComputed =>
    /\ ret.netIncome.t = "number"
    /\ ret.netIncome.n = ret.revenue.n - ret.expenses.n

\* What holds: the same when the expense line is not negative.
C28_ConsistentForNonNegativeExpenses ==
  (NetComputed /\ SearchedExpenses.n >= 0) =>
    /\ ret.netIncome.t = "number"
    /\ ret.netIncome.n = ret.revenue.n - ret.expenses.n

\* Revenue 3 and an expense line of -2: expenses reported as 2, netIncome
\* as 5.
C28_WitnessNegativeExpenses ==
  /\ NetComputed
  /\ SearchedExpenses = Num(-2 * Unit)
  /\ ret.revenue = Num(3 * Unit)
  /\ ret.expenses = Num(2 * Unit)
  /\ ret.netIncome = Num(5 * Unit)

(***************************************************************************)
(* Order of the statements handed to computeBurnRate                       *)
(***************************************************************************)
\* The burn of the statement the API holds for the month of a request.
BurnOfRequest(request) ==
  LET data == StatementOf(request) IN
  Num(Abs(extractTotal(data, ExpenseKeywords).n) - extractTotal(data, RevenueKeywords).n)

\* The income statement requests, in order of issue, are for the calendar
\* months numMonths months ago down to 1 month ago.  (A request keeps its
\* range for life: an answer changes its state and value only.)
RequestsOldestFirst ==
  LET n == Len(promises) - 1
      thisMonth == 12 * NowYear + (NowMonth - 1)
  IN \A j \in 1..n :
       LET k == thisMonth - (n - j + 1)
           y == k \div 12
           m == (k % 12) + 1
       IN /\ promises[j].api = "caApiGetIncomeStatementRetrieve"
          /\ promises[j].dateFrom = CalendarDate(y, m, 1)
          /\ promises[j].dateTo = CalendarDate(y, m, LastDayOf(y, m))
          /\ j < n => DateOrdinal(promises[j].dateFrom)
                        < DateOrdinal(promises[j + 1].dateFrom)
          /\ k < thisMonth

JustIssued == \A i \in 1..Len(promises) : promises[i].state = "pending"

\* C29: the monthly statements are requested and handed over oldest month
\* first, numMonths months ago down to 1 month ago, whatever the order of
\* the answers, and the burn rate is computed only when every answer has
\* arrived.
C29_OldestFirstAfterAll ==
  /\ (BurnRateIssued /\ (JustIssued \/ BurnRateReturned)) => RequestsOldestFirst
  /\ BurnRateReturned =>
       /\ \A i \in 1..Len(promises) : promises[i].state = "fulfilled"
       /\ StatementsAnalysed = Len(StatementsFetched)
       /\ \A j \in 1..StatementsAnalysed :
            ret.content[1].text.json.monthlyBurns[j].burn = BurnOfRequest(promises[j])
  /\ (BurnRateIssued /\ \E i \in 1..Len(promises) : promises[i].state = "pending") =>
       (pc = "done" => "isError" \in DOMAIN ret)

\* months = 3 on March 8, 2024: the burns of December, January and
\* February, in that order.
C29_Witness ==
  /\ BurnRateReturned
  /\ call.months = Num(3 * Unit)
  /\ call.tz = 0
  /\ promises[1].dateFrom = "2023-12-01"
  /\ promises[3].dateTo = "2024-02-29"
  /\ ret.content[1].text.json.monthlyBurns[1].burn = Num(12 * Unit)
  /\ ret.content[1].text.json.monthlyBurns[2].burn = Num(Unit)
  /\ ret.content[1].text.json.monthlyBurns[3].burn = Num(2 * Unit)

\* The newest month and the balance sheet answered while the oldest month
\* is still awaited.
C29_WitnessOutOfOrder ==
  /\ BurnRateIssued
  /\ pc = "await"
  /\ promises[1].state = "pending"
  /\ promises[Len(promises) - 1].state = "fulfilled"
  /\ promises[Len(promises)].state = "fulfilled"

(***************************************************************************)
(* Results of the tool handlers                                            *)
(***************************************************************************)
ToolDone == pc = "done" /\ "tool" \in DOMAIN call

FailedRequests == { i \in 1..Len(promises) : promises[i].state = "rejected" }

AllAnswered == \A i \in 1..Len(promises) : promises[i].state = "fulfilled"

\* The message of a failure: that of an Error, else the value as text.
MessageOf(err) == IF err.t = "Error" THEN err.message ELSE err.s

\* A result flagged as an error whose only content is the text "Error in
\* <tool>: <message>".
IsErrorOf(result, message) ==
  /\ DOMAIN result = {"content", "isError"}
  /\ result.isError = TRUE
  /\ result.content = <<[type |-> "text",
                         text |-> "Error in " \o call.tool \o ": " \o message]>>

\* A result that is not flagged and holds one serialization.
IsSerialization(result) ==
  /\ DOMAIN result = {"content"}
  /\ Len(result.content) = 1
  /\ result.content[1].type = "text"
  /\ DOMAIN result.content[1].text = {"json", "indent"}

\* The complete result of the tool on the answers, Throw when the shaping
\* step raises.
ShapedFromAnswers ==
  IF call.tool = "get_burn_rate"
  THEN computeBurnRate([j \in 1..(Len(promises) - 1) |->
                          MonthlyStatement(promises[j], call.tz)],
                       promises[Len(promises)].value.data)
  ELSE IF call.tool = "get_financial_snapshot"
  THEN IF Throw \in { buildFinancialSnapshot(promises[1].value.data, promises[2].value.data,
                                             promises[3].value.data, ""),
                      buildFinancialSnapshot(promises[4].value.data, promises[5].value.data,
                                             Null, "") }
       THEN Throw ELSE Null
  ELSE LET data == promises[1].value.data IN
       enrichTransactions(IF data.t = "array" THEN data
                          ELSE IF data.t = "object" /\ Truthy(Get(data, "results"))
                          THEN Get(data, "results") ELSE Arr(<<>>))

\* The number of requests the tool issues in all.
RequestsInAll ==
  IF call.tool = "get_burn_rate" THEN Len(StatementsFetched) + 1
  ELSE IF call.tool = "get_financial_snapshot" THEN 5
  ELSE 1

\* C30: a handler that has returned gave either an error result "Error in
\* <tool>: <message>" without data, when a request failed or the shaping
\* raised, or else the serialization of the complete result; and a handler
\* that has not returned is waiting for a request that is still pending.
C30_ErrorOrComplete ==
  /\ (ToolDone /\ FailedRequests # {}) =>
       \E i \in FailedRequests : IsErrorOf(ret, MessageOf(promises[i].value))
  /\ (ToolDone /\ FailedRequests = {}) =>
       /\ AllAnswered
       /\ Len(promises) = RequestsInAll
       /\ IF ShapedFromAnswers = Throw
          THEN IsErrorOf(ret, TypeErrorOf.message)
          ELSE IsSerialization(ret)
  /\ ("tool" \in DOMAIN call /\ pc \in {"await", "await2"}) =>
       /\ FailedRequests = {}
       /\ \E i \in 1..Len(promises) : promises[i].state = "pending"
       /\ ret = Undef

\* The serializations are those of the complete results.
C30_SerializationComplete ==
  (ToolDone /\ FailedRequests = {} /\ ShapedFromAnswers # Throw) =>
    IF call.tool = "get_burn_rate"
    THEN /\ DOMAIN ret.content[1].text.json
              = {"monthlyBurnAvg", "monthlyBurns", "trend", "cashPosition", "runwayMonths"}
         /\ Len(ret.content[1].text.json.monthlyBurns) = Len(promises) - 1
    ELSE IF call.tool = "get_financial_snapshot"
    THEN /\ DOMAIN ret.content[1].text.json = {"currentMonth", "ytd"}
         /\ ret.content[1].text.json.ytd.period = "YTD 2024"
    ELSE /\ Len(ret.content[1].text.json.transactions)
              = Len(ShapedFromAnswers.transactions)
         /\ ret.content[1].text.json.totalDebits = ShapedFromAnswers.totalDebits

\* get_financial_snapshot: one of the three concurrent requests failed
\* after another was answered; the result is the error of that failure.
C30_Witness ==
  /\ ToolDone
  /\ call.tool = "get_financial_snapshot"
  /\ promises[1].state = "fulfilled"
  /\ promises[2].state = "rejected"
  /\ promises[3].state = "pending"
  /\ ret = [ content |-> <<[type |-> "text",
                            text |-> "Error in get_financial_snapshot: socket hang up"]>>,
             isError |-> TRUE ]

\* get_burn_rate: every request answered, the shaping raises on the balance
\* sheet: an error result.
C30_WitnessShapingRaises ==
  /\ ToolDone
  /\ call.tool = "get_burn_rate"
  /\ AllAnswered
  /\ "isError" \in DOMAIN ret

\* get_transactions: a page of two transactions serialized.
C30_WitnessComplete ==
  /\ ToolDone
  /\ call.tool = "get_transactions"
  /\ IsSerialization(ret)
  /\ Len(ret.content[1].text.json.transactions) = 2
  /\ DOMAIN ret.content[1].text.json.transactions[2] = {"id", "accountType", "debit", "credit"}
  /\ ret.content[1].text.json.transactions[2].credit = Null

\* get_financial_snapshot: the five answers serialized.
C30_WitnessSnapshot ==
  /\ ToolDone
  /\ call.tool = "get_financial_snapshot"
  /\ IsSerialization(ret)
  /\ Len(promises) = 5

====
